---- MODULE Spec2Model ----
(***************************************************************************)
(* A model of the metadata-and-block transaction layer of TiFS             *)
(* (src/src/fs/transaction.rs, src/src/fs/tikv_fs.rs).                     *)
(*                                                                         *)
(* The persistent state is one ordered key-value map.  Keys are tuples     *)
(* whose first component is the family tag of the key schema:              *)
(*   <<"M">>               the meta record                                 *)
(*   <<"I", ino>>          an inode                                        *)
(*   <<"B", ino, block>>   a block of a file, or block 0 of a directory    *)
(*   <<"X", parent, name>> a name index entry                              *)
(*   <<"H", ino, fh>>      a file handle                                   *)
(* A transaction view is a record [kv, w]: the map it reads and writes and *)
(* the set of keys it has written.                                         *)
(***************************************************************************)
EXTENDS Integers, Sequences, FiniteSets, TLC

VARIABLES
    store,       \* the committed key-value map (TiKV, or TiFs.entry_map)
    backend,     \* "kv" (feature kv_store, Txn) or "mem" (feature mem_store, LocalTxn)
    block_size,  \* TiFs.block_size, fixed at construction
    direct_io,   \* TiFs.direct_io: the DirectIO mount option was given
    written,     \* history: offset -> byte of the last write that covered it
    lastRes,     \* history: the reply of the last finished request
    nops,        \* history: number of requests issued so far
    allocated,   \* history: inode numbers (handle ids in the handle specification)
                 \* handed out by successful requests
    clean,       \* history: TRUE while no request has failed
    procs,       \* the requests in flight: task -> its request, position and locals
    versions,    \* kv backend: commit clock and the commit time of every key
    holders      \* history: the lock grants answered Ok and not yet released

vars == <<store, backend, block_size, direct_io, written, lastRes, nops,
          allocated, clean, procs, versions, holders>>

\* the variables of requests in flight
conc == <<procs, versions, holders>>

\* ------------------------------------------------------------------ bounds
MaxBlocks == 4      \* file offsets range over 0 .. MaxBlocks * block_size - 1
MaxDataLen == 3     \* longest buffer of one write
MaxFileOps == 3     \* requests per behaviour of the file specification
MaxIno == 3         \* inode numbers range over 1 .. MaxIno
MaxFh == 1          \* handles opened per inode
MaxNsOps == 5       \* requests per behaviour of the namespace specification
MaxCreators == 2    \* tasks of the create specification
MaxReaders == 1     \* tasks that look names up while the rename runs
MaxLookups == 2     \* lookup requests per reader
MaxLockReqs == 2    \* setlk requests per owner of the lock race specification
MaxOwners == 2      \* lock owners range over 1 .. MaxOwners
MaxLockOps == 4     \* requests per behaviour of the lock specification
MaxInlineOps == 3    \* requests per behaviour of the inline specification
MaxOpens == 2        \* open requests per task of the open specification
MaxHandles == 2      \* handle ids one inode hands out in the handle specification
MaxHandleOps == 4    \* requests per behaviour of the handle specification
MaxMountOps == 4     \* requests per behaviour of the mount specification
MaxSpinReqs == 2     \* requests per task of the spin specification
SmallBlock == 2     \* block size (bytes) of the scaled-down mount

\* --------------------------------------------------------------- constants
ROOT_INODE == 1
INLINE_DATA_THRESHOLD_BASE == 16

\* ----------------------------------------------------------------- helpers
Min(a, b) == IF a < b THEN a ELSE b
Max(a, b) == IF a > b THEN a ELSE b
CeilDiv(a, b) == (a + b - 1) \div b

Zeros(n) == [i \in 1..n |-> 0]

\* Vec::resize(n, 0)
Resize(s, n) == [i \in 1..n |-> IF i <= Len(s) THEN s[i] ELSE 0]

\* dst[at .. at+len(src)].copy_from_slice(src), at is 0-based
Splice(dst, at, src) ==
    [i \in 1..Len(dst) |->
        IF i > at /\ i <= at + Len(src) THEN src[i - at] ELSE dst[i]]

\* &s[from..], from is 0-based
Skip(s, from) == SubSeq(s, from + 1, Len(s))

empty_block == Zeros(block_size)

inline_data_threshold == block_size \div INLINE_DATA_THRESHOLD_BASE

\* ------------------------------------------------------------- key schema
MetaKey == <<"M">>
InodeKey(ino) == <<"I", ino>>
BlockKey(ino, b) == <<"B", ino, b>>
IndexKey(parent, name) == <<"X", parent, name>>
HandlerKey(ino, fh) == <<"H", ino, fh>>

\* ------------------------------------------------------ transaction facade
View(kv) == [kv |-> kv, w |-> {}]

Has(t, k) == k \in DOMAIN t.kv
Get(t, k) == IF k \in DOMAIN t.kv THEN <<t.kv[k]>> ELSE <<>>
Put(t, k, v) ==
    [kv |-> [x \in DOMAIN t.kv \cup {k} |-> IF x = k THEN v ELSE t.kv[x]],
     w |-> t.w \cup {k}]
Delete(t, k) ==
    [kv |-> [x \in DOMAIN t.kv \ {k} |-> t.kv[x]],
     w |-> t.w \cup {k}]

Ok(t, v) == [t |-> t, err |-> "Ok", val |-> v]
Err(t, e) == [t |-> t, err |-> e, val |-> 0]

\* ------------------------------------------------------------ value codecs
DataBlock(bytes) == [t |-> "data", bytes |-> bytes]
DirBlock(items) == [t |-> "dir", items |-> items]
DirItem(ino, name, typ) == [ino |-> ino, name |-> name, typ |-> typ]
\* length of the encoded directory: positive, growing with the entries
DirEncodedLen(items) == 1 + Len(items)

MetaNew == [inode_next |-> ROOT_INODE, block_size |-> block_size]

NewInode(ino, kind) ==
    [ino |-> ino, kind |-> kind, size |-> 0, nlink |-> 1,
     next_fh |-> 0, opened_fh |-> 0, inline_data |-> <<>>,
     lk_type |-> "F_UNLCK", owner_set |-> {}]

\* ---------------------------------------------------------------- inodes
read_inode(t, ino) == Get(t, InodeKey(ino))

RECURSIVE DeleteBlocks(_, _, _, _)
DeleteBlocks(t, ino, from, to) ==
    IF from >= to THEN t
    ELSE DeleteBlocks(Delete(t, BlockKey(ino, from)), ino, from + 1, to)

\* Txn::save_inode
save_inode_kv(t, inode) ==
    IF inode.nlink = 0 /\ inode.opened_fh = 0
    THEN Delete(t, InodeKey(inode.ino))
    ELSE Put(t, InodeKey(inode.ino), inode)

\* LocalTxn::save_inode
save_inode_mem(t, inode) ==
    IF inode.nlink = 0 /\ inode.opened_fh = 0
    THEN DeleteBlocks(Delete(t, InodeKey(inode.ino)), inode.ino, 0,
                      CeilDiv(inode.size, block_size))
    ELSE Put(t, InodeKey(inode.ino), inode)

save_inode(t, inode) ==
    IF backend = "mem" THEN save_inode_mem(t, inode) ELSE save_inode_kv(t, inode)


\* ------------------------------------------------------------ inline data
\* a transfer that stores an empty block 0
transfer_inline_data_to_block_blank(t, inode) ==
    [t |-> Put(t, BlockKey(inode.ino, 0), DataBlock(empty_block)),
     inode |-> [inode EXCEPT !.inline_data = <<>>]]

\* Txn::transfer_inline_data_to_block: returns the view and the inode
transfer_inline_data_to_block(t, inode) ==
    [t |-> Put(t, BlockKey(inode.ino, 0),
               DataBlock(Resize(inode.inline_data[1], block_size))),
     inode |-> [inode EXCEPT !.inline_data = <<>>]]

\* a write_inline_data that keeps the written bytes only
write_inline_data_bare(t, inode, start, data) ==
    Ok(save_inode(t, [inode EXCEPT !.size = Len(data), !.inline_data = <<data>>]),
       Len(data))
\* Txn::write_inline_data
write_inline_data(t, inode, start, data) ==
    LET cur == IF inode.inline_data = <<>> THEN <<>> ELSE inode.inline_data[1]
        grown == IF start + Len(data) > Len(cur)
                 THEN Resize(cur, start + Len(data)) ELSE cur
        inlined == Splice(grown, start, data)
        inode2 == [inode EXCEPT !.size = Len(inlined),
                                !.inline_data = <<inlined>>]
    IN  Ok(save_inode(t, inode2), Len(data))

\* Txn::read_inline_data
read_inline_data(t, inode, start, size) ==
    LET inlined == inode.inline_data[1]
        to_copy == IF Len(inlined) > start
                   THEN Min(size, Len(inlined) - start) ELSE 0
        data == [i \in 1..size |->
                    IF i <= to_copy THEN inlined[start + i] ELSE 0]
    IN  Ok(save_inode(t, inode), data)

\* ------------------------------------------------------------- block data
\* scan(block_range(ino, lo..hi), limit): the stored blocks in ascending
\* order of block index, as pairs <<block, value>>
RECURSIVE scan_blocks(_, _, _, _)
scan_blocks(t, ino, lo, hi) ==
    IF lo >= hi THEN <<>>
    ELSE (IF Has(t, BlockKey(ino, lo))
          THEN << <<lo, t.kv[BlockKey(ino, lo)].bytes>> >> ELSE <<>>)
         \o scan_blocks(t, ino, lo + 1, hi)

\* n copies of the empty block
RECURSIVE empty_blocks(_)
empty_blocks(n) == IF n <= 0 THEN <<>> ELSE <<empty_block>> \o empty_blocks(n - 1)

\* the flat_map of read_data: before the i-th scanned pair (i from 0) come
\* the empty blocks of the range start_block + i .. key
RECURSIVE sparse_fill(_, _, _)
sparse_fill(pairs, start_block, i) ==
    IF i >= Len(pairs) THEN <<>>
    ELSE empty_blocks(pairs[i + 1][1] - (start_block + i))
         \o << pairs[i + 1][2] >>
         \o sparse_fill(pairs, start_block, i + 1)

\* the fold of read_data: concatenate, the first value cut at start % bs
RECURSIVE concat_blocks(_, _, _)
concat_blocks(values, i, cut) ==
    IF i > Len(values) THEN <<>>
    ELSE (IF i = 1 THEN Skip(values[i], cut) ELSE values[i])
         \o concat_blocks(values, i + 1, cut)

\* a read_data that does not look at the size of the file
read_data_unclamped(t, ino, start, chunk) ==
    LET r == read_inode(t, ino) IN
    IF r = <<>> THEN Err(t, "InodeNotFound")
    ELSE Ok(save_inode(t, r[1]), Zeros(chunk))

\* Txn::read_data / LocalTxn::read_data, chunk_size = Some(chunk)
read_data(t, ino, start, chunk) ==
    LET r == read_inode(t, ino) IN
    IF r = <<>> THEN Err(t, "InodeNotFound")
    ELSE LET attr == r[1] IN
    IF start >= attr.size THEN Ok(t, <<>>)
    ELSE LET max_size == attr.size - start
             size == Min(chunk, max_size)
         IN
         IF attr.inline_data # <<>> THEN read_inline_data(t, attr, start, size)
         ELSE LET target == start + size
                  start_block == start \div block_size
                  end_block == CeilDiv(target, block_size)
                  pairs == scan_blocks(t, ino, start_block, end_block)
                  values == sparse_fill(pairs, start_block, 0)
                  data == concat_blocks(values, 1, start % block_size)
              IN  Ok(save_inode(t, attr), Resize(data, size))

\* the while loop of write_data over the rest of the buffer
RECURSIVE write_rest(_, _, _, _)
write_rest(t, ino, block_index, rest) ==
    IF Len(rest) = 0 THEN t
    ELSE LET idx == block_index + 1
             n == Min(block_size, Len(rest))
             curent_block == SubSeq(rest, 1, n)
             current_rest == SubSeq(rest, n + 1, Len(rest))
             key == BlockKey(ino, idx)
             last_value == IF Has(t, key) THEN t.kv[key].bytes ELSE empty_block
             value == IF n < block_size
                      THEN Splice(last_value, 0, curent_block)
                      ELSE curent_block
         IN  write_rest(Put(t, key, DataBlock(value)), ino, idx, current_rest)

\* Txn::write_data / LocalTxn::write_data
write_data(t, ino, start, data) ==
    LET r == read_inode(t, ino) IN
    IF r = <<>> THEN Err(t, "InodeNotFound")
    ELSE
    LET size == Len(data)
        target == start + size
        tr == IF r[1].inline_data # <<>> /\ target > block_size
              THEN transfer_inline_data_to_block(t, r[1])
              ELSE [t |-> t, inode |-> r[1]]
        inode == tr.inode
    IN
    IF (inode.inline_data # <<>> \/ inode.size = 0) /\ target <= block_size
    THEN write_inline_data(tr.t, inode, start, data)
    ELSE
    LET block_index == start \div block_size
        start_key == BlockKey(ino, block_index)
        start_index == start % block_size
        first_block_size == block_size - start_index
        n == Min(first_block_size, size)
        first_block == SubSeq(data, 1, n)
        rest == SubSeq(data, n + 1, size)
        start_value == IF Has(tr.t, start_key)
                       THEN tr.t.kv[start_key].bytes ELSE empty_block
        t1 == Put(tr.t, start_key,
                  DataBlock(Splice(start_value, start_index, first_block)))
        t2 == write_rest(t1, ino, block_index, rest)
        inode2 == [inode EXCEPT !.size = Max(inode.size, target)]
    IN  Ok(save_inode(t2, inode2), size)

\* ---------------------------------------------------- index and directory
get_index(t, parent, name) == Get(t, IndexKey(parent, name))
\* a set_index that loses the write
set_index_lost(t, parent, name, ino) == t
set_index(t, parent, name, ino) == Put(t, IndexKey(parent, name), ino)
remove_index(t, parent, name) == Delete(t, IndexKey(parent, name))
remove_inode(t, ino) == Delete(t, InodeKey(ino))

read_meta(t) == Get(t, MetaKey)
save_meta(t, meta) == Put(t, MetaKey, meta)

\* Txn::read_dir: block 0 decoded as a directory
read_dir(t, ino) ==
    LET data == Get(t, BlockKey(ino, 0)) IN
    IF data = <<>> THEN Err(t, "BlockNotFound")
    ELSE IF data[1].t # "dir" THEN Err(t, "Codec")
    ELSE Ok(t, data[1].items)

\* Txn::save_dir
save_dir(t, ino, dir) ==
    LET r == read_inode(t, ino) IN
    IF r = <<>> THEN Err(t, "InodeNotFound")
    ELSE LET inode == [r[1] EXCEPT !.size = DirEncodedLen(dir)]
             t1 == save_inode(t, inode)
         IN  Ok(Put(t1, BlockKey(ino, 0), DirBlock(dir)), inode)

\* parent_dir.into_iter().filter(|item| item.name != name).collect()
RECURSIVE filter_name(_, _)
filter_name(dir, name) ==
    IF dir = <<>> THEN <<>>
    ELSE (IF Head(dir).name # name THEN <<Head(dir)>> ELSE <<>>)
         \o filter_name(Tail(dir), name)

\* an allocation that stops advancing the counter past the first user inode
next_meta_stuck(meta) == [meta EXCEPT !.inode_next = IF @ <= ROOT_INODE THEN @ + 1 ELSE @]
\* meta.inode_next += 1
next_meta(meta) == [meta EXCEPT !.inode_next = @ + 1]

\* Txn::make_inode / LocalTxn::make_inode
make_inode(t, parent, name, kind) ==
    LET m == read_meta(t)
        meta == IF m = <<>> THEN MetaNew ELSE m[1]
        ino == meta.inode_next
        t1 == save_meta(t, next_meta(meta))
        inode == NewInode(ino, kind)
    IN
    IF parent >= ROOT_INODE
    THEN IF get_index(t1, parent, name) # <<>> THEN Err(t1, "FileExist")
         ELSE LET t2 == set_index(t1, parent, name, ino)
                  d == read_dir(t2, parent)
              IN
              IF d.err # "Ok" THEN Err(t2, d.err)
              ELSE LET s == save_dir(t2, parent,
                                     Append(d.val, DirItem(ino, name, kind)))
                   IN  IF s.err # "Ok" THEN Err(s.t, s.err)
                       ELSE Ok(save_inode(s.t, inode), inode)
    ELSE Ok(save_inode(t1, inode), inode)

\* Txn::mkdir
mkdir(t, parent, name) ==
    LET r == make_inode(t, parent, name, "Directory") IN
    IF r.err # "Ok" THEN r
    ELSE LET t1 == save_inode(r.t, r.val) IN save_dir(t1, r.val.ino, <<>>)

\* an unlink that answers Ok whatever the name
unlink_quiet(t, parent, name) == Ok(t, 0)
\* Txn::unlink / LocalTxn::unlink
unlink(t, parent, name) ==
    LET ix == get_index(t, parent, name) IN
    IF ix = <<>> THEN Err(t, "FileNotFound")
    ELSE
    LET t1 == remove_index(t, parent, name)
        d == read_dir(t1, parent)
    IN
    IF d.err # "Ok" THEN Err(t1, d.err)
    ELSE
    LET s == save_dir(t1, parent, filter_name(d.val, name)) IN
    IF s.err # "Ok" THEN Err(s.t, s.err)
    ELSE
    LET r == read_inode(s.t, ix[1]) IN
    IF r = <<>> THEN Err(s.t, "InodeNotFound")
    ELSE Ok(save_inode(s.t, [r[1] EXCEPT !.nlink = @ - 1]), 0)

\* an rmdir that does not look into the directory
rmdir_forced(t, parent, name) ==
    LET ix == get_index(t, parent, name) IN
    IF ix = <<>> THEN Err(t, "FileNotFound")
    ELSE
    LET t1 == remove_inode(remove_index(t, parent, name), ix[1])
        d == read_dir(t1, parent)
    IN
    IF d.err # "Ok" THEN Err(t1, d.err)
    ELSE LET s == save_dir(t1, parent, filter_name(d.val, name)) IN
         IF s.err # "Ok" THEN Err(s.t, s.err) ELSE Ok(s.t, 0)

\* Txn::rmdir / LocalTxn::rmdir
rmdir(t, parent, name) ==
    LET ix == get_index(t, parent, name) IN
    IF ix = <<>> THEN Err(t, "FileNotFound")
    ELSE
    LET target_dir == read_dir(t, ix[1]) IN
    IF target_dir.err # "Ok" THEN Err(t, target_dir.err)
    ELSE IF Len(target_dir.val) # 0 THEN Err(t, "DirNotEmpty")
    ELSE
    LET t1 == remove_inode(remove_index(t, parent, name), ix[1])
        d == read_dir(t1, parent)
    IN
    IF d.err # "Ok" THEN Err(t1, d.err)
    ELSE LET s == save_dir(t1, parent, filter_name(d.val, name)) IN
         IF s.err # "Ok" THEN Err(s.t, s.err) ELSE Ok(s.t, 0)

\* a link that sets the index and leaves nlink
link_uncounted(t, ino, newparent, newname) ==
    LET r == read_inode(t, ino) IN
    IF r = <<>> THEN Err(t, "InodeNotFound")
    ELSE Ok(set_index(t, newparent, newname, ino), r[1])
\* Txn::link / LocalTxn::link
link(t, ino, newparent, newname) ==
    LET ix == get_index(t, newparent, newname)
        old == IF ix = <<>> THEN <<>> ELSE read_inode(t, ix[1])
        rm == IF ix = <<>> THEN Ok(t, 0)
              ELSE IF old = <<>> THEN Err(t, "InodeNotFound")
              ELSE IF old[1].kind = "Directory" THEN rmdir(t, newparent, newname)
              ELSE unlink(t, newparent, newname)
    IN
    IF rm.err # "Ok" THEN rm
    ELSE
    LET t1 == set_index(rm.t, newparent, newname, ino)
        r == read_inode(t1, ino)
    IN
    IF r = <<>> THEN Err(t1, "InodeNotFound")
    ELSE
    LET d == read_dir(t1, newparent) IN
    IF d.err # "Ok" THEN Err(t1, d.err)
    ELSE
    LET s == save_dir(t1, newparent,
                      Append(d.val, DirItem(ino, newname, r[1].kind)))
    IN
    IF s.err # "Ok" THEN Err(s.t, s.err)
    ELSE LET inode == [r[1] EXCEPT !.nlink = @ + 1] IN
         Ok(save_inode(s.t, inode), inode)

\* Txn::lookup
lookup(t, parent, name) ==
    LET ix == get_index(t, parent, name) IN
    IF ix = <<>> THEN Err(t, "FileNotFound") ELSE Ok(t, ix[1])

\* ----------------------------------------------------------- file handles
read_fh(t, ino, fh) == Get(t, HandlerKey(ino, fh))
save_fh(t, ino, fh, handler) == Put(t, HandlerKey(ino, fh), handler)
FileHandlerDefault == [cursor |-> 0]

\* an open that numbers the handle by the count of open handles
open_reusing(t, ino) ==
    LET r == read_inode(t, ino) IN
    IF r = <<>> THEN Err(t, "InodeNotFound")
    ELSE LET fh == r[1].opened_fh
             t1 == save_fh(t, ino, fh, FileHandlerDefault)
             inode == [r[1] EXCEPT !.next_fh = @ + 1, !.opened_fh = @ + 1]
         IN  Ok(save_inode(t1, inode), fh)

\* Txn::open / LocalTxn::open
open(t, ino) ==
    LET r == read_inode(t, ino) IN
    IF r = <<>> THEN Err(t, "InodeNotFound")
    ELSE LET fh == r[1].next_fh
             t1 == save_fh(t, ino, fh, FileHandlerDefault)
             inode == [r[1] EXCEPT !.next_fh = @ + 1, !.opened_fh = @ + 1]
         IN  Ok(save_inode(t1, inode), fh)

\* a close that drops the handle record and leaves opened_fh
close_forgetful(t, ino, fh) ==
    IF read_fh(t, ino, fh) = <<>> THEN Err(t, "FhNotFound")
    ELSE Ok(Delete(t, HandlerKey(ino, fh)), 0)
\* Txn::close / LocalTxn::close
close(t, ino, fh) ==
    IF read_fh(t, ino, fh) = <<>> THEN Err(t, "FhNotFound")
    ELSE LET t1 == Delete(t, HandlerKey(ino, fh))
             r == read_inode(t1, ino)
         IN  IF r = <<>> THEN Err(t1, "InodeNotFound")
             ELSE Ok(save_inode(t1, [r[1] EXCEPT !.opened_fh = @ - 1]), 0)

\* a read that takes the offset from the start of the file
read_uncursored(t, ino, fh, offset, size) ==
    LET h == read_fh(t, ino, fh) IN
    IF h = <<>> THEN Err(t, "FhNotFound")
    ELSE IF offset < 0 THEN Err(t, "InvalidOffset")
         ELSE read_data(t, ino, offset, size)

\* Txn::read
read(t, ino, fh, offset, size) ==
    LET h == read_fh(t, ino, fh) IN
    IF h = <<>> THEN Err(t, "FhNotFound")
    ELSE LET start == h[1].cursor + offset IN
         IF start < 0 THEN Err(t, "InvalidOffset")
         ELSE read_data(t, ino, start, size)

\* Txn::write
write(t, ino, fh, offset, data) ==
    LET h == read_fh(t, ino, fh) IN
    IF h = <<>> THEN Err(t, "FhNotFound")
    ELSE LET start == h[1].cursor + offset IN
         IF start < 0 THEN Err(t, "InvalidOffset")
         ELSE write_data(t, ino, start, data)

\* ------------------------------------------------------------- dispatcher
\* an init that does not compare the block sizes
init_trusting(t) ==
    IF read_inode(t, ROOT_INODE) = <<>>
    THEN LET r == mkdir(t, 0, "") IN
         IF r.err # "Ok" THEN r ELSE Ok(r.t, 0)
    ELSE Ok(t, 0)

\* TiFs::init (the closure run in the transaction)
init(t) ==
    LET m == read_meta(t) IN
    IF m # <<>> /\ m[1].block_size # block_size THEN Err(t, "BlockSizeConflict")
    ELSE IF read_inode(t, ROOT_INODE) = <<>>
         THEN LET r == mkdir(t, 0, "") IN
              IF r.err # "Ok" THEN r ELSE Ok(r.t, 0)
         ELSE Ok(t, 0)

\* TiFs::rename (the closure run in the transaction)
rename(t, parent, name, newparent, new_name) ==
    LET l == lookup(t, parent, name) IN
    IF l.err # "Ok" THEN l
    ELSE LET k == link(t, l.val, newparent, new_name) IN
         IF k.err # "Ok" THEN k
         ELSE unlink(k.t, parent, name)

\* TiFs::setattr (the closure run in the transaction), size = Some(size)
setattr(t, ino, size) ==
    LET r == read_inode(t, ino) IN
    IF r = <<>> THEN Err(t, "InodeNotFound")
    ELSE LET attr == [r[1] EXCEPT !.size = size] IN
         Ok(save_inode(t, attr), attr)

\* a setlk whose unlock takes the owner out and keeps the lock type
setlk_forgetting(t, ino, lock_owner, typ, sleep) ==
    LET r == read_inode(t, ino) IN
    IF r = <<>> THEN Err(t, "InodeNotFound")
    ELSE IF typ = "F_UNLCK"
    THEN Ok(save_inode(t, [r[1] EXCEPT !.owner_set = @ \ {lock_owner}]), TRUE)
    ELSE Ok(save_inode(t, [r[1] EXCEPT !.lk_type = typ,
                                       !.owner_set = @ \cup {lock_owner}]), TRUE)
\* a setlk that upgrades a shared lock whoever else holds it
setlk_upgrading(t, ino, lock_owner, typ, sleep) ==
    LET r == read_inode(t, ino) IN
    IF r = <<>> THEN Err(t, "InodeNotFound")
    ELSE IF typ = "F_UNLCK" THEN Ok(t, TRUE)
    ELSE Ok(save_inode(t, [r[1] EXCEPT !.lk_type = typ,
                                       !.owner_set = @ \cup {lock_owner}]), TRUE)
\* a setlk whose unlock releases every owner
setlk_clearing(t, ino, lock_owner, typ, sleep) ==
    LET r == read_inode(t, ino) IN
    IF r = <<>> THEN Err(t, "InodeNotFound")
    ELSE IF typ = "F_UNLCK"
    THEN Ok(save_inode(t, [r[1] EXCEPT !.owner_set = {}, !.lk_type = "F_UNLCK"]), TRUE)
    ELSE Ok(save_inode(t, [r[1] EXCEPT !.lk_type = "F_RDLCK",
                                       !.owner_set = @ \cup {lock_owner}]), TRUE)
\* a setlk that does not look at the kind of the inode
setlk_anywhere(t, ino, lock_owner, typ, sleep) ==
    LET r == read_inode(t, ino) IN
    IF r = <<>> THEN Err(t, "InodeNotFound")
    ELSE Ok(save_inode(t, [r[1] EXCEPT !.lk_type = "F_RDLCK",
                                       !.owner_set = {lock_owner}]), TRUE)
\* a setlk that grants whatever is asked
setlk_granting(t, ino, lock_owner, typ, sleep) ==
    LET r == read_inode(t, ino) IN
    IF r = <<>> THEN Err(t, "InodeNotFound")
    ELSE Ok(save_inode(t, [r[1] EXCEPT !.lk_type = typ,
                                       !.owner_set = @ \cup {lock_owner}]), TRUE)
\* TiFs::setlk (the closure run in the transaction): Ok(TRUE) when the
\* request is settled, Ok(FALSE) when a sleeping request has to wait
setlk(t, ino, lock_owner, typ, sleep) ==
    LET r == read_inode(t, ino) IN
    IF r = <<>> THEN Err(t, "InodeNotFound")
    ELSE
    LET inode == r[1]
        wait == IF sleep THEN Ok(t, FALSE) ELSE Err(t, "InvalidLock")
    IN
    IF inode.kind = "Directory" THEN Err(t, "InvalidLock")
    ELSE CASE typ = "F_RDLCK" ->
                IF inode.lk_type = "F_WRLCK" THEN wait
                ELSE Ok(save_inode(t, [inode EXCEPT !.owner_set = @ \cup {lock_owner},
                                                    !.lk_type = "F_RDLCK"]), TRUE)
           [] typ = "F_WRLCK" ->
                CASE inode.lk_type = "F_RDLCK" ->
                        IF inode.owner_set = {lock_owner}
                        THEN Ok(save_inode(t, [inode EXCEPT !.lk_type = "F_WRLCK"]), TRUE)
                        ELSE wait
                  [] inode.lk_type = "F_UNLCK" ->
                        Ok(save_inode(t, [inode EXCEPT !.owner_set = {lock_owner},
                                                       !.lk_type = "F_WRLCK"]), TRUE)
                  [] inode.lk_type = "F_WRLCK" -> wait
                  [] OTHER -> Err(t, "InvalidLock")
           [] typ = "F_UNLCK" ->
                LET owners == inode.owner_set \ {lock_owner} IN
                Ok(save_inode(t, [inode EXCEPT
                                    !.owner_set = owners,
                                    !.lk_type = IF owners = {} THEN "F_UNLCK" ELSE @]),
                   TRUE)
           [] OTHER -> Err(t, "InvalidLock")

\* TiFs::setlkw (the closure run in each round of its loop): Ok(TRUE) ends
\* the loop, Ok(FALSE) asks for another round
setlkw(t, ino, lock_owner, typ) ==
    LET r == read_inode(t, ino) IN
    IF r = <<>> THEN Err(t, "InodeNotFound")
    ELSE
    LET inode == r[1] IN
    CASE typ = "F_WRLCK" ->
            IF Cardinality(inode.owner_set) > 1 THEN Ok(t, FALSE)
            ELSE IF inode.owner_set = {}
            THEN Ok(save_inode(t, [inode EXCEPT !.lk_type = "F_WRLCK",
                                                !.owner_set = {lock_owner}]), TRUE)
            ELSE IF lock_owner \in inode.owner_set
            THEN Ok(save_inode(t, [inode EXCEPT !.lk_type = "F_WRLCK"]), TRUE)
            ELSE Err(t, "InvalidLock")
      [] typ = "F_RDLCK" ->
            IF inode.lk_type = "F_WRLCK" THEN Ok(t, FALSE)
            ELSE Ok(save_inode(t, [inode EXCEPT !.lk_type = "F_RDLCK",
                                                !.owner_set = @ \cup {lock_owner}]), TRUE)
      [] OTHER -> Err(t, "InvalidLock")

\* TiFs::process_txn (commit on Ok, rollback on Err) and
\* TiFs::process_txn_local (neither), for a request that runs alone
Committed(r) ==
    IF backend = "kv" /\ r.err # "Ok" THEN store ELSE r.t.kv

EmptyStore == [k \in {} |-> 0]

\* the store after init on an empty store
MountedStore == init(View(EmptyStore)).t.kv

\* no request is in flight: the requests run one after the other
NoVersions == [clock |-> 0, at |-> [k \in {} |-> 0]]
Quiet ==
    /\ procs = <<>>
    /\ versions = NoVersions
    /\ holders = {}

Reply(op, arg, r) == [op |-> op, arg |-> arg, err |-> r.err, val |-> r.val]
NoReply == [op |-> "none", arg |-> <<>>, err |-> "Ok", val |-> 0]

\* ----------------------------------------------------------------------
\* File specification: one regular file (inode 2, handle 0) that is
\* written and read through its handle.
\* ----------------------------------------------------------------------
FileIno == 2
FileFh == 0

FileStore ==
    LET a == make_inode(View(MountedStore), ROOT_INODE, "f", "RegularFile")
    IN  open(a.t, FileIno).t.kv

Offsets == 0 .. (MaxBlocks * block_size - 1)

FileInit ==
    /\ backend \in {"kv", "mem"}
    /\ block_size = SmallBlock
    /\ direct_io = FALSE
    /\ store = FileStore
    /\ written = [k \in {} |-> 0]
    /\ lastRes = NoReply
    /\ nops = 0
    /\ allocated = {}
    /\ clean = TRUE
    /\ Quiet

\* the bytes of the n-th write are all n
Payload(n, len) == [i \in 1..len |-> n]

Cover(w, off, data) ==
    [k \in DOMAIN w \cup (off .. off + Len(data) - 1) |->
        IF k >= off /\ k < off + Len(data) THEN data[k - off + 1] ELSE w[k]]

\* TiFs::write
FWrite(off, len) ==
    /\ nops < MaxFileOps
    /\ LET data == Payload(nops + 1, len)
           r == write(View(store), FileIno, FileFh, off, data)
       IN  /\ store' = Committed(r)
           /\ written' = IF r.err = "Ok" THEN Cover(written, off, data) ELSE written
           /\ lastRes' = Reply("write", <<off, len>>, r)
           /\ clean' = (clean /\ r.err = "Ok")
    /\ nops' = nops + 1
    /\ UNCHANGED <<backend, block_size, direct_io, allocated, conc>>

\* TiFs::read
FRead(off, size) ==
    /\ nops < MaxFileOps
    /\ LET r == read(View(store), FileIno, FileFh, off, size)
       IN  /\ store' = Committed(r)
           /\ lastRes' = Reply("read", <<off, size>>, r)
           /\ clean' = (clean /\ r.err = "Ok")
    /\ nops' = nops + 1
    /\ UNCHANGED <<backend, block_size, direct_io, written, allocated, conc>>

FileNext ==
    \/ \E off \in Offsets, len \in 1..MaxDataLen : FWrite(off, len)
    \/ \E off \in Offsets, size \in {1, MaxBlocks * block_size} : FRead(off, size)

FileSpec == FileInit /\ [][FileNext]_vars

FileSize == store[InodeKey(FileIno)].size
Expected(k) == IF k \in DOMAIN written THEN written[k] ELSE 0

\* C1: read-after-write.  A read that starts at or past size returns empty;
\* any other read returns min(requested, size - start) bytes and the byte at
\* every offset k is the byte of the last write that covered k, or zero.
ReadAfterWrite ==
    (lastRes.op = "read" /\ lastRes.err = "Ok") =>
        LET off == lastRes.arg[1]
            data == lastRes.val
        IN  /\ Len(data) = IF off >= FileSize THEN 0
                           ELSE Min(lastRes.arg[2], FileSize - off)
            /\ \A i \in 1..Len(data) : data[i] = Expected(off + i - 1)


\* ----------------------------------------------------------------------
\* Namespace specification: requests that run one after the other against
\* a freshly mounted store, in either backend.
\* ----------------------------------------------------------------------
Names == {"a", "b"}
Inos == ROOT_INODE .. MaxIno
UserInos == (ROOT_INODE + 1) .. MaxIno

NsInit ==
    /\ backend \in {"kv", "mem"}
    /\ block_size = SmallBlock
    /\ direct_io = FALSE
    /\ store = MountedStore
    /\ written = [k \in {} |-> 0]
    /\ lastRes = NoReply
    /\ nops = 0
    /\ allocated = {}
    /\ clean = TRUE
    /\ Quiet

InodeNext == store[MetaKey].inode_next

\* Requests name inode numbers that have been handed out.
HandedOut(ino) == ino < InodeNext

\* The data of a directory is its encoded entry list: the requests that
\* write file bytes or set a size are issued on inodes that are not
\* directories (the inode may be gone).
FileOrGone(ino) ==
    /\ HandedOut(ino)
    /\ InodeKey(ino) \in DOMAIN store => store[InodeKey(ino)].kind # "Directory"

\* The kernel resolves a name before it removes it and sends unlink for
\* what is not a directory (rmdir for a directory): an unlink request names
\* an absent name or a non-directory.
NamesFile(parent, name) ==
    IndexKey(parent, name) \in DOMAIN store => FileOrGone(store[IndexKey(parent, name)])

\* a request that runs alone: its closure r, the value it replies on
\* success, and the inode number it handed out (alloc, a set)
Request(op, arg, r, val, alloc) ==
    /\ nops < MaxNsOps
    /\ nops' = nops + 1
    /\ store' = Committed(r)
    /\ lastRes' = IF r.err = "Ok"
                  THEN [op |-> op, arg |-> arg, err |-> "Ok", val |-> val]
                  ELSE [op |-> op, arg |-> <<>>, err |-> r.err, val |-> 0]
    /\ allocated' = IF r.err = "Ok" THEN allocated \cup alloc ELSE allocated
    /\ clean' = (clean /\ r.err = "Ok")
    /\ UNCHANGED <<backend, block_size, direct_io, written, conc>>

\* TiFs::mknod
NMknod(parent, name) ==
    /\ InodeNext <= MaxIno
    /\ HandedOut(parent)
    /\ LET r == make_inode(View(store), parent, name, "RegularFile")
       IN  Request("mknod", <<parent, name>>, r, InodeNext, {InodeNext})

\* TiFs::mkdir
NMkdir(parent, name) ==
    /\ InodeNext <= MaxIno
    /\ HandedOut(parent)
    /\ LET r == mkdir(View(store), parent, name)
       IN  Request("mkdir", <<parent, name>>, r, InodeNext, {InodeNext})

\* TiFs::link
NLink(ino, newparent, newname) ==
    /\ HandedOut(ino)
    /\ HandedOut(newparent)
    /\ Request("link", <<ino, newparent, newname>>,
            link(View(store), ino, newparent, newname), 0, {})

\* TiFs::unlink
NUnlink(parent, name) ==
    /\ HandedOut(parent)
    /\ NamesFile(parent, name)
    /\ Request("unlink", <<parent, name>>, unlink(View(store), parent, name), 0, {})

\* TiFs::rmdir
NRmdir(parent, name) ==
    /\ HandedOut(parent)
    /\ Request("rmdir", <<parent, name>>, rmdir(View(store), parent, name), 0, {})

\* TiFs::rename
NRename(parent, name, newparent, new_name) ==
    /\ HandedOut(parent)
    /\ HandedOut(newparent)
    /\ Request("rename", <<parent, name, newparent, new_name>>,
               rename(View(store), parent, name, newparent, new_name), 0, {})

\* TiFs::open.  The kernel sends open for what is not a directory (a
\* directory is opened with opendir, which TiFs does not implement).
NOpen(ino) ==
    /\ FileOrGone(ino)
    /\ InodeKey(ino) \in DOMAIN store => store[InodeKey(ino)].next_fh < MaxFh
    /\ LET r == open(View(store), ino) IN Request("open", <<ino>>, r, r.val, {})

\* TiFs::release
NRelease(ino, fh) ==
    /\ HandedOut(ino)
    /\ Request("release", <<ino, fh>>, close(View(store), ino, fh), 0, {})

\* TiFs::write, one byte
NWrite(ino, fh, off) ==
    /\ FileOrGone(ino)
    /\ Request("write", <<ino, fh, off>>,
            write(View(store), ino, fh, off, <<1>>), 0, {})

\* TiFs::setattr with a size
NSetattr(ino, size) ==
    /\ FileOrGone(ino)
    /\ Request("setattr", <<ino, size>>, setattr(View(store), ino, size), 0, {})

NsNext ==
    \/ \E parent \in Inos, name \in Names : NMknod(parent, name)
    \/ \E parent \in Inos, name \in Names : NMkdir(parent, name)
    \/ \E ino \in UserInos, parent \in Inos, name \in Names : NLink(ino, parent, name)
    \/ \E parent \in Inos, name \in Names : NUnlink(parent, name)
    \/ \E parent \in Inos, name \in Names : NRmdir(parent, name)
    \/ \E parent \in Inos, name \in Names, newparent \in Inos, new_name \in Names :
          NRename(parent, name, newparent, new_name)
    \/ \E ino \in UserInos : NOpen(ino)
    \/ \E ino \in UserInos, fh \in 0..(MaxFh - 1) : NRelease(ino, fh)
    \/ \E ino \in UserInos, fh \in 0..(MaxFh - 1), off \in {0, block_size} :
          NWrite(ino, fh, off)
    \/ \E ino \in UserInos : NSetattr(ino, 0)

NsSpec == NsInit /\ [][NsNext]_vars
\* ----------------------------------------------------------------------
\* Properties of the namespace specification
\* ----------------------------------------------------------------------
DirEntries(p) ==
    IF BlockKey(p, 0) \in DOMAIN store /\ store[BlockKey(p, 0)].t = "dir"
    THEN store[BlockKey(p, 0)].items ELSE <<>>

EntryCount(p, ino, n) ==
    Cardinality({i \in 1..Len(DirEntries(p)) :
                    DirEntries(p)[i].ino = ino /\ DirEntries(p)[i].name = n})

Indexed(p, n, ino) ==
    IndexKey(p, n) \in DOMAIN store /\ store[IndexKey(p, n)] = ino

\* C2: index/directory coherence.  After any sequence of successful
\* requests, the index maps (p, n) to ino if and only if the directory block
\* of p holds exactly one entry (ino, n).
IndexDirCoherent ==
    clean => \A p \in Inos, n \in Names, ino \in Inos :
                Indexed(p, n, ino) <=> EntryCount(p, ino, n) = 1

\* a rename succeeded in a behaviour of successful requests and left the
\* renamed inode under its new name
CoherentAfterRename ==
    /\ clean
    /\ lastRes.op = "rename"
    /\ Indexed(lastRes.arg[3], lastRes.arg[4], store[IndexKey(lastRes.arg[3], lastRes.arg[4])])
    /\ EntryCount(lastRes.arg[3], store[IndexKey(lastRes.arg[3], lastRes.arg[4])],
                  lastRes.arg[4]) = 1
    /\ <<lastRes.arg[1], lastRes.arg[2]>> # <<lastRes.arg[3], lastRes.arg[4]>>

BlockKeysOf(st, ino) == {k \in DOMAIN st : k[1] = "B" /\ k[2] = ino}

\* C3: reclamation.  A successful unlink or release that removes the inode
\* record of a regular file (nlink and opened_fh both reached 0) leaves no
\* block key of that inode, in either backend; and a stored inode has
\* nlink > 0 or opened_fh > 0.
Reclamation ==
    [][\A ino \in UserInos :
          /\ (InodeKey(ino) \in DOMAIN store'
                => (store'[InodeKey(ino)].nlink > 0
                    \/ store'[InodeKey(ino)].opened_fh > 0))
          /\ (/\ lastRes'.op \in {"unlink", "release"}
              /\ lastRes'.err = "Ok"
              /\ InodeKey(ino) \in DOMAIN store
              /\ store[InodeKey(ino)].kind = "RegularFile"
              /\ InodeKey(ino) \notin DOMAIN store')
                => BlockKeysOf(store', ino) = {}]_vars

\* C4: no orphan blocks.  Every stored block key belongs to an inode whose
\* record exists.
NoOrphanBlocks ==
    \A k \in DOMAIN store : k[1] = "B" => InodeKey(k[2]) \in DOMAIN store

\* C5: inode allocation.  inode_next never decreases; a successful creation
\* raises it and hands out a number that was never handed out before and
\* that no stored inode carries.
Created ==
    /\ nops' = nops + 1
    /\ lastRes'.op \in {"mknod", "mkdir"}
    /\ lastRes'.err = "Ok"

AllocationMonotone ==
    [][/\ store'[MetaKey].inode_next >= store[MetaKey].inode_next
       /\ Created =>
            /\ store'[MetaKey].inode_next > store[MetaKey].inode_next
            /\ lastRes'.val \notin allocated
            /\ InodeKey(lastRes'.val) \notin DOMAIN store
            /\ InodeKey(lastRes'.val) \in DOMAIN store']_vars

\* a creation succeeded after an earlier inode had been freed
AllocationAfterFree ==
    /\ lastRes.op \in {"mknod", "mkdir"}
    /\ lastRes.err = "Ok"
    /\ \E i \in allocated : i < lastRes.val /\ InodeKey(i) \notin DOMAIN store

\* C8: rename never drops the last reference.  After a rename that returns
\* Ok the new name resolves to the renamed inode, whose record exists with
\* the nlink, size, inline data and blocks it had before.
RenameKeepsReference ==
    [][(/\ nops' = nops + 1
        /\ lastRes'.op = "rename"
        /\ lastRes'.err = "Ok")
        => LET a == lastRes'.arg
               ino == store[IndexKey(a[1], a[2])]
           IN  /\ IndexKey(a[3], a[4]) \in DOMAIN store'
               /\ store'[IndexKey(a[3], a[4])] = ino
               /\ InodeKey(ino) \in DOMAIN store'
               /\ store'[InodeKey(ino)].nlink = store[InodeKey(ino)].nlink
               /\ store[InodeKey(ino)].kind = "RegularFile" =>
                     /\ store'[InodeKey(ino)].size = store[InodeKey(ino)].size
                     /\ store'[InodeKey(ino)].inline_data
                            = store[InodeKey(ino)].inline_data
                     /\ \A k \in BlockKeysOf(store, ino) :
                           k \in DOMAIN store' /\ store'[k] = store[k]]_vars
\* ----------------------------------------------------------------------
\* Lock specification: non-sleeping setlk requests, one after the other,
\* on a regular file and on a directory.
\* ----------------------------------------------------------------------
Owners == 1 .. MaxOwners
LockTypes == {"F_RDLCK", "F_WRLCK", "F_UNLCK"}

\* the inodes made by mknod(1, "a") and mkdir(1, "b") on a fresh mount
LockIno == ROOT_INODE + 1
LockDir == ROOT_INODE + 2

LockInit ==
    /\ backend \in {"kv", "mem"}
    /\ block_size = SmallBlock
    /\ direct_io = FALSE
    /\ \E mounted \in {MountedStore} :
       \E made \in {make_inode(View(mounted), ROOT_INODE, "a", "RegularFile").t.kv} :
          store = mkdir(View(made), ROOT_INODE, "b").t.kv
    /\ written = [k \in {} |-> 0]
    /\ lastRes = NoReply
    /\ nops = 0
    /\ allocated = {}
    /\ clean = TRUE
    /\ Quiet

\* TiFs::setlk with sleep = false
LSetlk(ino, lock_owner, typ) ==
    /\ nops < MaxLockOps
    /\ LET r == setlk(View(store), ino, lock_owner, typ, FALSE)
       IN  /\ store' = Committed(r)
           /\ lastRes' = [op |-> "setlk", arg |-> <<ino, lock_owner, typ>>,
                          err |-> r.err, val |-> 0]
           /\ clean' = (clean /\ r.err = "Ok")
    /\ nops' = nops + 1
    /\ UNCHANGED <<backend, block_size, direct_io, written, allocated, conc>>

LockNext ==
    \E ino \in {LockIno, LockDir}, lock_owner \in Owners, typ \in LockTypes :
        LSetlk(ino, lock_owner, typ)

LockSpec == LockInit /\ [][LockNext]_vars

LockState(st, ino) == <<st[InodeKey(ino)].lk_type, st[InodeKey(ino)].owner_set>>

\* C9: lock exclusion.  While owner a holds the exclusive lock, a
\* non-sleeping shared or exclusive request of another owner fails with
\* InvalidLock and leaves lock type and owner set as they were; the unlock
\* of a leaves the file unlocked with an empty owner set.
LockExclusion ==
    [][\A a \in Owners :
          (/\ nops' = nops + 1
           /\ lastRes'.op = "setlk"
           /\ lastRes'.arg[1] = LockIno
           /\ store[InodeKey(LockIno)].lk_type = "F_WRLCK"
           /\ a \in store[InodeKey(LockIno)].owner_set)
          => /\ (lastRes'.arg[2] # a /\ lastRes'.arg[3] \in {"F_RDLCK", "F_WRLCK"})
                   => /\ lastRes'.err = "InvalidLock"
                      /\ LockState(store', LockIno) = LockState(store, LockIno)
             /\ (lastRes'.arg[2] = a /\ lastRes'.arg[3] = "F_UNLCK")
                   => /\ lastRes'.err = "Ok"
                      /\ LockState(store', LockIno) = <<"F_UNLCK", {}>>]_vars

\* the exclusive lock is held and the request of another owner was refused
ExclusiveRefused ==
    /\ lastRes.op = "setlk"
    /\ lastRes.err = "InvalidLock"
    /\ lastRes.arg[1] = LockIno
    /\ lastRes.arg[3] \in {"F_RDLCK", "F_WRLCK"}
    /\ store[InodeKey(LockIno)].lk_type = "F_WRLCK"
    /\ lastRes.arg[2] \notin store[InodeKey(LockIno)].owner_set
\* ----------------------------------------------------------------------
\* Requests in flight.  A task runs one request at a time; the request runs
\* its closures one after the other, each under TiFs::spin (kv backend) or
\* TiFs::spin_local (mem backend).
\*   kv:  Begin takes the snapshot, Commit runs the closure on it and
\*        commits; a key written by another commit since the snapshot makes
\*        the commit fail with the retryable error and spin starts again.
\*   mem: every map operation of LocalTxn locks entry_map for itself; a task
\*        advances by one map operation per step.
\* ----------------------------------------------------------------------
NoLoc ==
    [ino |-> 0, meta |-> 0, inode |-> 0, dir |-> <<>>, sd |-> 0, sdi |-> 0,
     sdret |-> "", ul |-> <<>>, ulino |-> 0, ulret |-> "", old |-> 0, val |-> 0]

NoAnswer == [err |-> "none", val |-> 0, retries |-> 0]

Idle(n) ==
    [op |-> "none", arg |-> <<>>, txn |-> "none", targ |-> <<>>, pc |-> "idle",
     snap |-> EmptyStore, start |-> 0, loc |-> NoLoc, retries |-> 0,
     reply |-> NoAnswer, left |-> n]

\* TiFs::lookup (the closure run in the transaction)
lookup_entry(t, parent, name) ==
    LET l == lookup(t, parent, name) IN
    IF l.err # "Ok" THEN l
    ELSE IF read_inode(t, l.val) = <<>> THEN Err(t, "InodeNotFound")
    ELSE Ok(t, l.val)

\* the closure a handler hands to spin_no_delay_local
Closure(txn, targ, t) ==
    CASE txn = "make_inode" -> make_inode(t, targ[1], targ[2], "RegularFile")
      [] txn = "open" -> open(t, targ[1])
      [] txn = "rename" -> rename(t, targ[1], targ[2], targ[3], targ[4])
      [] txn = "lookup" -> lookup_entry(t, targ[1], targ[2])
      [] txn = "setlk" -> setlk(t, targ[1], targ[2], targ[3], targ[4])
      [] txn = "setlkw" -> setlkw(t, targ[1], targ[2], targ[3])

\* the first closure of a handler
FirstTxn(op) ==
    CASE op = "create" -> "make_inode"
      [] op = "rename" -> "rename"
      [] op = "lookup" -> "lookup"
      [] op = "setlk" -> "setlk"
      [] op = "open" -> "open"

\* What the handler does with the result r of closure txn: run another
\* closure (more) or answer the request.
\*   TiFs::create: mknod, then open of the new inode
\*   TiFs::setlk:  a request that has to wait goes on in TiFs::setlkw, whose
\*                 loop runs its closure until it returns true
Followup(op, txn, targ, r) ==
    CASE r.err # "Ok" ->
            [more |-> FALSE, txn |-> "none", targ |-> <<>>, err |-> r.err, val |-> 0]
      [] r.err = "Ok" /\ txn = "make_inode" /\ op = "create" ->
            [more |-> TRUE, txn |-> "open", targ |-> <<r.val.ino>>, err |-> "Ok", val |-> 0]
      [] r.err = "Ok" /\ txn = "open" ->
            [more |-> FALSE, txn |-> "none", targ |-> <<>>, err |-> "Ok",
             val |-> <<targ[1], r.val>>]
      [] r.err = "Ok" /\ txn \in {"setlk", "setlkw"} ->
            IF r.val
            THEN [more |-> FALSE, txn |-> "none", targ |-> <<>>, err |-> "Ok", val |-> 0]
            ELSE [more |-> TRUE, txn |-> "setlkw", targ |-> <<targ[1], targ[2], targ[3]>>,
                  err |-> "Ok", val |-> 0]
      [] OTHER ->
            [more |-> FALSE, txn |-> "none", targ |-> <<>>, err |-> "Ok", val |-> r.val]

\* one step of a LocalTxn closure: the map after the step and either the
\* next position with the locals or the result of the closure
Go(kv, pc, loc) == [kv |-> kv, pc |-> pc, loc |-> loc, fin |-> <<>>]
Fin(kv, err, val) ==
    [kv |-> kv, pc |-> "idle", loc |-> NoLoc, fin |-> <<[err |-> err, val |-> val]>>]

\* LocalTxn::save_dir(loc.sd, loc.dir), then on to loc.sdret
save_dir_step(pc, loc, kv) ==
    LET t == View(kv) IN
    CASE pc = "sd_read_inode" ->
            LET r == read_inode(t, loc.sd) IN
            IF r = <<>> THEN Fin(kv, "InodeNotFound", 0)
            ELSE Go(kv, "sd_save_inode",
                    [loc EXCEPT !.sdi = [r[1] EXCEPT !.size = DirEncodedLen(loc.dir)]])
      [] pc = "sd_save_inode" ->
            Go(save_inode(t, loc.sdi).kv, "sd_put_block", loc)
      [] pc = "sd_put_block" ->
            Go(Put(t, BlockKey(loc.sd, 0), DirBlock(loc.dir)).kv, loc.sdret, loc)

\* LocalTxn::make_inode(parent, name)
make_inode_step(parent, name, pc, loc, kv) ==
    LET t == View(kv) IN
    CASE pc = "mk_read_meta" ->
            LET m == read_meta(t) IN
            Go(kv, "mk_save_meta", [loc EXCEPT !.meta = IF m = <<>> THEN MetaNew ELSE m[1]])
      [] pc = "mk_save_meta" ->
            Go(save_meta(t, next_meta(loc.meta)).kv,
               IF parent >= ROOT_INODE THEN "mk_get_index" ELSE "mk_save_inode",
               [loc EXCEPT !.ino = loc.meta.inode_next])
      [] pc = "mk_get_index" ->
            IF get_index(t, parent, name) # <<>> THEN Fin(kv, "FileExist", 0)
            ELSE Go(kv, "mk_set_index", loc)
      [] pc = "mk_set_index" ->
            Go(set_index(t, parent, name, loc.ino).kv, "mk_read_dir", loc)
      [] pc = "mk_read_dir" ->
            LET d == read_dir(t, parent) IN
            IF d.err # "Ok" THEN Fin(kv, d.err, 0)
            ELSE Go(kv, "sd_read_inode",
                    [loc EXCEPT !.dir = Append(d.val, DirItem(loc.ino, name, "RegularFile")),
                                !.sd = parent, !.sdret = "mk_save_inode"])
      [] pc = "mk_save_inode" ->
            Fin(save_inode(t, NewInode(loc.ino, "RegularFile")).kv, "Ok",
                NewInode(loc.ino, "RegularFile"))

\* LocalTxn::open(ino)
open_step(ino, pc, loc, kv) ==
    LET t == View(kv) IN
    CASE pc = "op_read_inode" ->
            LET r == read_inode(t, ino) IN
            IF r = <<>> THEN Fin(kv, "InodeNotFound", 0)
            ELSE Go(kv, "op_save_fh", [loc EXCEPT !.inode = r[1], !.val = r[1].next_fh])
      [] pc = "op_save_fh" ->
            Go(save_fh(t, ino, loc.val, FileHandlerDefault).kv, "op_save_inode", loc)
      [] pc = "op_save_inode" ->
            Fin(save_inode(t, [loc.inode EXCEPT !.next_fh = @ + 1,
                                                !.opened_fh = @ + 1]).kv, "Ok", loc.val)

\* TiFs::lookup on LocalTxn: lookup(parent, name), then read_inode
lookup_step(parent, name, pc, loc, kv) ==
    LET t == View(kv) IN
    CASE pc = "lk_get_index" ->
            LET ix == get_index(t, parent, name) IN
            IF ix = <<>> THEN Fin(kv, "FileNotFound", 0)
            ELSE Go(kv, "lk_read_inode", [loc EXCEPT !.ino = ix[1]])
      [] pc = "lk_read_inode" ->
            IF read_inode(t, loc.ino) = <<>> THEN Fin(kv, "InodeNotFound", 0)
            ELSE Fin(kv, "Ok", loc.ino)

\* LocalTxn::unlink(loc.ul[1], loc.ul[2]), then on to loc.ulret
unlink_step(pc, loc, kv) ==
    LET t == View(kv)
        parent == loc.ul[1]
        name == loc.ul[2]
    IN
    CASE pc = "ul_get_index" ->
            LET ix == get_index(t, parent, name) IN
            IF ix = <<>> THEN Fin(kv, "FileNotFound", 0)
            ELSE Go(kv, "ul_remove_index", [loc EXCEPT !.ulino = ix[1]])
      [] pc = "ul_remove_index" ->
            Go(remove_index(t, parent, name).kv, "ul_read_dir", loc)
      [] pc = "ul_read_dir" ->
            LET d == read_dir(t, parent) IN
            IF d.err # "Ok" THEN Fin(kv, d.err, 0)
            ELSE Go(kv, "sd_read_inode",
                    [loc EXCEPT !.dir = filter_name(d.val, name),
                                !.sd = parent, !.sdret = "ul_read_inode"])
      [] pc = "ul_read_inode" ->
            LET r == read_inode(t, loc.ulino) IN
            IF r = <<>> THEN Fin(kv, "InodeNotFound", 0)
            ELSE Go(kv, "ul_save_inode", [loc EXCEPT !.val = [r[1] EXCEPT !.nlink = @ - 1]])
      [] pc = "ul_save_inode" ->
            IF loc.ulret = "return" THEN Fin(save_inode(t, loc.val).kv, "Ok", 0)
            ELSE Go(save_inode(t, loc.val).kv, loc.ulret, loc)

\* LocalTxn::rmdir(loc.ul[1], loc.ul[2]), then on to loc.ulret
rmdir_step(pc, loc, kv) ==
    LET t == View(kv)
        parent == loc.ul[1]
        name == loc.ul[2]
    IN
    CASE pc = "rd_get_index" ->
            LET ix == get_index(t, parent, name) IN
            IF ix = <<>> THEN Fin(kv, "FileNotFound", 0)
            ELSE Go(kv, "rd_read_target", [loc EXCEPT !.ulino = ix[1]])
      [] pc = "rd_read_target" ->
            LET d == read_dir(t, loc.ulino) IN
            IF d.err # "Ok" THEN Fin(kv, d.err, 0)
            ELSE IF Len(d.val) # 0 THEN Fin(kv, "DirNotEmpty", 0)
            ELSE Go(kv, "rd_remove_index", loc)
      [] pc = "rd_remove_index" ->
            Go(remove_index(t, parent, name).kv, "rd_remove_inode", loc)
      [] pc = "rd_remove_inode" ->
            Go(remove_inode(t, loc.ulino).kv, "rd_read_parent", loc)
      [] pc = "rd_read_parent" ->
            LET d == read_dir(t, parent) IN
            IF d.err # "Ok" THEN Fin(kv, d.err, 0)
            ELSE Go(kv, "sd_read_inode",
                    [loc EXCEPT !.dir = filter_name(d.val, name),
                                !.sd = parent, !.sdret = loc.ulret])

\* LocalTxn::link(loc.ino, newparent, newname), then on to unlink(parent, name)
link_step(parent, name, newparent, newname, pc, loc, kv) ==
    LET t == View(kv) IN
    CASE pc = "ln_get_index" ->
            LET ix == get_index(t, newparent, newname) IN
            IF ix = <<>> THEN Go(kv, "ln_set_index", loc)
            ELSE Go(kv, "ln_read_old", [loc EXCEPT !.old = ix[1]])
      [] pc = "ln_read_old" ->
            LET r == read_inode(t, loc.old) IN
            IF r = <<>> THEN Fin(kv, "InodeNotFound", 0)
            ELSE Go(kv, IF r[1].kind = "Directory" THEN "rd_get_index" ELSE "ul_get_index",
                    [loc EXCEPT !.ul = <<newparent, newname>>, !.ulret = "ln_set_index"])
      [] pc = "ln_set_index" ->
            Go(set_index(t, newparent, newname, loc.ino).kv, "ln_read_inode", loc)
      [] pc = "ln_read_inode" ->
            LET r == read_inode(t, loc.ino) IN
            IF r = <<>> THEN Fin(kv, "InodeNotFound", 0)
            ELSE Go(kv, "ln_read_dir", [loc EXCEPT !.inode = r[1]])
      [] pc = "ln_read_dir" ->
            LET d == read_dir(t, newparent) IN
            IF d.err # "Ok" THEN Fin(kv, d.err, 0)
            ELSE Go(kv, "sd_read_inode",
                    [loc EXCEPT !.dir = Append(d.val,
                                               DirItem(loc.ino, newname, loc.inode.kind)),
                                !.sd = newparent, !.sdret = "ln_save_inode"])
      [] pc = "ln_save_inode" ->
            Go(save_inode(t, [loc.inode EXCEPT !.nlink = @ + 1]).kv, "ul_get_index",
               [loc EXCEPT !.ul = <<parent, name>>, !.ulret = "return"])

\* TiFs::rename on LocalTxn: lookup, link, unlink
rename_step(targ, pc, loc, kv) ==
    IF pc = "rn_lookup"
    THEN LET ix == get_index(View(kv), targ[1], targ[2]) IN
         IF ix = <<>> THEN Fin(kv, "FileNotFound", 0)
         ELSE Go(kv, "ln_get_index", [loc EXCEPT !.ino = ix[1]])
    ELSE link_step(targ[1], targ[2], targ[3], targ[4], pc, loc, kv)

\* TiFs::setlk and TiFs::setlkw on LocalTxn: the closure reads the inode,
\* decides, and saves the inode it has read if it grants or releases
setlk_read(r, ino, loc, kv) ==
    IF r.t.w = {} THEN Fin(kv, r.err, r.val)
    ELSE Go(kv, "sl_save_inode", [loc EXCEPT !.inode = r.t.kv[InodeKey(ino)], !.val = r.val])

setlk_step(txn, targ, pc, loc, kv) ==
    CASE pc = "sl_read_inode" ->
            setlk_read(IF txn = "setlk"
                       THEN setlk(View(kv), targ[1], targ[2], targ[3], targ[4])
                       ELSE setlkw(View(kv), targ[1], targ[2], targ[3]),
                       targ[1], loc, kv)
      [] pc = "sl_save_inode" ->
            Fin(save_inode(View(kv), loc.inode).kv, "Ok", loc.val)

FirstStep(txn) ==
    CASE txn = "make_inode" -> "mk_read_meta"
      [] txn = "open" -> "op_read_inode"
      [] txn = "rename" -> "rn_lookup"
      [] txn = "lookup" -> "lk_get_index"
      [] txn \in {"setlk", "setlkw"} -> "sl_read_inode"

\* one map operation of the closure txn at position pc
mem_step(txn, targ, pc, loc, kv) ==
    CASE pc \in {"sd_read_inode", "sd_save_inode", "sd_put_block"} ->
            save_dir_step(pc, loc, kv)
      [] pc \in {"ul_get_index", "ul_remove_index", "ul_read_dir", "ul_read_inode",
                 "ul_save_inode"} -> unlink_step(pc, loc, kv)
      [] pc \in {"rd_get_index", "rd_read_target", "rd_remove_index", "rd_remove_inode",
                 "rd_read_parent"} -> rmdir_step(pc, loc, kv)
      [] pc \in {"mk_read_meta", "mk_save_meta", "mk_get_index", "mk_set_index",
                 "mk_read_dir", "mk_save_inode"} ->
            make_inode_step(targ[1], targ[2], pc, loc, kv)
      [] pc \in {"op_read_inode", "op_save_fh", "op_save_inode"} ->
            open_step(targ[1], pc, loc, kv)
      [] pc \in {"lk_get_index", "lk_read_inode"} ->
            lookup_step(targ[1], targ[2], pc, loc, kv)
      [] pc \in {"rn_lookup", "ln_get_index", "ln_read_old", "ln_set_index",
                 "ln_read_inode", "ln_read_dir", "ln_save_inode"} ->
            rename_step(targ, pc, loc, kv)
      [] pc \in {"sl_read_inode", "sl_save_inode"} ->
            setlk_step(txn, targ, pc, loc, kv)

\* where a closure starts: at the snapshot (kv) or at its first map operation
StartPc(txn) == IF backend = "kv" THEN "begin" ELSE FirstStep(txn)

\* Transaction::commit: the writes of view t reach the store
Apply(st, t) ==
    [k \in (DOMAIN st \ t.w) \cup (t.w \cap DOMAIN t.kv) |->
        IF k \in t.w THEN t.kv[k] ELSE st[k]]

Stamp(v, w) ==
    [clock |-> v.clock + 1,
     at |-> [k \in DOMAIN v.at \cup w |-> IF k \in w THEN v.clock + 1 ELSE v.at[k]]]

\* a validation that lets every commit through
Conflict_blind(t, start) == FALSE
\* optimistic validation: a key of the write set was committed after start
Conflict(t, start) ==
    \E k \in t.w : k \in DOMAIN versions.at /\ versions.at[k] > start

\* the grants an answered setlk request leaves
Granted(h, op, arg, err) ==
    IF op = "setlk" /\ err = "Ok"
    THEN {x \in h : x[1] # arg[2]}
         \cup (IF arg[3] = "F_UNLCK" THEN {} ELSE {<<arg[2], arg[3]>>})
    ELSE h

\* a task takes up a request
Issue(p, op, arg) ==
    /\ procs[p].pc = "idle"
    /\ procs[p].left > 0
    /\ procs' = [procs EXCEPT ![p] =
                    [@ EXCEPT !.op = op, !.arg = arg, !.txn = FirstTxn(op), !.targ = arg,
                              !.pc = StartPc(FirstTxn(op)), !.retries = 0,
                              !.reply = NoAnswer, !.left = @ - 1]]
    /\ UNCHANGED <<store, backend, block_size, direct_io, written, lastRes, nops,
                 allocated,
                   clean, versions, holders>>

\* the closure of task p has returned r and left the map kv
Finish(p, kv, r) ==
    \E f \in {Followup(procs[p].op, procs[p].txn, procs[p].targ, r)} :
        /\ store' = kv
        /\ procs' = [procs EXCEPT ![p] =
              IF f.more
              THEN [@ EXCEPT !.txn = f.txn, !.targ = f.targ, !.pc = StartPc(f.txn),
                             !.snap = EmptyStore, !.start = 0, !.loc = NoLoc]
              ELSE [@ EXCEPT !.txn = "none", !.targ = <<>>, !.pc = "idle",
                             !.snap = EmptyStore, !.start = 0, !.loc = NoLoc,
                             !.reply = [err |-> f.err, val |-> f.val,
                                        retries |-> procs[p].retries]]]
        /\ holders' = IF f.more THEN holders
                      ELSE Granted(holders, procs[p].op, procs[p].arg, f.err)

\* Txn::begin_optimistic
Begin(p) ==
    /\ backend = "kv"
    /\ procs[p].pc = "begin"
    /\ procs' = [procs EXCEPT ![p] =
                    [@ EXCEPT !.pc = "commit", !.snap = store, !.start = versions.clock]]
    /\ UNCHANGED <<store, backend, block_size, direct_io, written, lastRes, nops,
                 allocated,
                   clean, versions, holders>>

\* TiFs::process_txn under TiFs::spin: the closure runs on the snapshot;
\* commit on Ok, rollback on Err; a failed commit starts the loop again
Commit(p) ==
    /\ backend = "kv"
    /\ procs[p].pc = "commit"
    /\ \E r \in {Closure(procs[p].txn, procs[p].targ, View(procs[p].snap))} :
          IF r.err = "Ok" /\ Conflict(r.t, procs[p].start)
          THEN /\ procs' = [procs EXCEPT ![p] =
                              [@ EXCEPT !.pc = "begin", !.snap = EmptyStore,
                                        !.start = 0, !.retries = @ + 1]]
               /\ UNCHANGED <<store, versions, holders>>
          ELSE /\ Finish(p, IF r.err = "Ok" THEN Apply(store, r.t) ELSE store, r)
               /\ versions' = IF r.err = "Ok" /\ r.t.w # {}
                              THEN Stamp(versions, r.t.w) ELSE versions
    /\ UNCHANGED <<backend, block_size, direct_io, written, lastRes, nops,
                 allocated, clean>>

\* TiFs::process_txn_local under TiFs::spin_local: one map operation
Step(p) ==
    /\ backend = "mem"
    /\ procs[p].pc \notin {"idle", "begin", "commit"}
    /\ \E m \in {mem_step(procs[p].txn, procs[p].targ, procs[p].pc, procs[p].loc, store)} :
          IF m.fin = <<>>
          THEN /\ store' = m.kv
               /\ procs' = [procs EXCEPT ![p] = [@ EXCEPT !.pc = m.pc, !.loc = m.loc]]
               /\ UNCHANGED holders
          ELSE Finish(p, m.kv, m.fin[1])
    /\ UNCHANGED <<backend, block_size, direct_io, written, lastRes, nops,
                 allocated, clean,
                   versions>>

\* ----------------------------------------------------------------------
\* Create specification: concurrent create requests under the root, each
\* task with a name of its own.
\* ----------------------------------------------------------------------
Creators == 1 .. MaxCreators
CreateName(p) == <<"a", "b", "c", "d">>[p]

CreateInit ==
    /\ backend \in {"kv", "mem"}
    /\ block_size = SmallBlock
    /\ direct_io = FALSE
    /\ store = MountedStore
    /\ written = [k \in {} |-> 0]
    /\ lastRes = NoReply
    /\ nops = 0
    /\ allocated = {}
    /\ clean = TRUE
    /\ procs = [p \in Creators |-> Idle(1)]
    /\ versions = NoVersions
    /\ holders = {}

\* TiFs::create
IssueCreate(p) ==
    /\ p \in Creators
    /\ Issue(p, "create", <<ROOT_INODE, CreateName(p)>>)

CreateNext ==
    \E p \in Creators : IssueCreate(p) \/ Begin(p) \/ Commit(p) \/ Step(p)

CreateSpec == CreateInit /\ [][CreateNext]_vars

AllAnswered == \A p \in DOMAIN procs : procs[p].pc = "idle" /\ procs[p].left = 0

\* C6: concurrent creates.  When the create requests of the tasks (same
\* parent, different names) have been answered, every one has succeeded
\* after at most one spin retry, the inode numbers differ, every name is in
\* the index and in the directory block of the parent, and inode_next has
\* advanced by the number of requests.
ConcurrentCreate ==
    AllAnswered =>
        /\ \A p \in Creators :
              /\ procs[p].reply.err = "Ok"
              /\ procs[p].reply.retries <= 1
              /\ Indexed(ROOT_INODE, CreateName(p), procs[p].reply.val[1])
              /\ EntryCount(ROOT_INODE, procs[p].reply.val[1], CreateName(p)) = 1
        /\ \A p, q \in Creators :
              p # q => procs[p].reply.val[1] # procs[q].reply.val[1]
        /\ InodeNext = ROOT_INODE + 1 + MaxCreators
\* ----------------------------------------------------------------------
\* Rename specification: rename(1, "a", 1, "b") by one task while other
\* tasks look up "a" and "b".  The new name is free, or names another
\* file, or names an empty directory.
\* ----------------------------------------------------------------------
Renamer == 1
Readers == 2 .. (1 + MaxReaders)
RenameIno == ROOT_INODE + 1

RenameInit ==
    /\ backend \in {"kv", "mem"}
    /\ block_size = SmallBlock
    /\ direct_io = FALSE
    /\ \E mounted \in {MountedStore} :
       \E made \in {make_inode(View(mounted), ROOT_INODE, "a", "RegularFile").t.kv} :
          store \in {made,
                     make_inode(View(made), ROOT_INODE, "b", "RegularFile").t.kv,
                     mkdir(View(made), ROOT_INODE, "b").t.kv}
    /\ written = [k \in {} |-> 0]
    /\ lastRes = NoReply
    /\ nops = 0
    /\ allocated = {}
    /\ clean = TRUE
    /\ procs = [p \in {Renamer} \cup Readers |->
                   IF p = Renamer THEN Idle(1) ELSE Idle(MaxLookups)]
    /\ versions = NoVersions
    /\ holders = {}

\* TiFs::rename
IssueRename(p) ==
    /\ p = Renamer
    /\ Issue(p, "rename", <<ROOT_INODE, "a", ROOT_INODE, "b">>)

\* TiFs::lookup
IssueLookup(p, name) ==
    /\ p \in Readers
    /\ Issue(p, "lookup", <<ROOT_INODE, name>>)

RenameNext ==
    \E p \in {Renamer} \cup Readers :
        \/ IssueRename(p)
        \/ \E name \in Names : IssueLookup(p, name)
        \/ Begin(p)
        \/ Commit(p)
        \/ Step(p)

RenameSpec == RenameInit /\ [][RenameNext]_vars

\* a lookup of the name that starts now finds the renamed inode
Resolves(name) ==
    \E r \in {lookup(View(store), ROOT_INODE, name)} :
        r.err = "Ok" /\ r.val = RenameIno

\* C7: rename atomicity.  At every point of the rename, with lookups of
\* both names in flight, exactly one of the old and the new name resolves
\* to the renamed inode.
RenameAtomic == Resolves("a") # Resolves("b")

\* ----------------------------------------------------------------------
\* Lock race specification: the owners send setlk requests (lock, unlock,
\* sleeping or not) for one file at the same time.
\* ----------------------------------------------------------------------
RaceInit ==
    /\ backend \in {"kv", "mem"}
    /\ block_size = SmallBlock
    /\ direct_io = FALSE
    /\ \E mounted \in {MountedStore} :
          store = make_inode(View(mounted), ROOT_INODE, "a", "RegularFile").t.kv
    /\ written = [k \in {} |-> 0]
    /\ lastRes = NoReply
    /\ nops = 0
    /\ allocated = {}
    /\ clean = TRUE
    /\ procs = [p \in Owners |-> Idle(MaxLockReqs)]
    /\ versions = NoVersions
    /\ holders = {}

\* TiFs::setlk of owner p
IssueSetlk(p, typ, sleep) ==
    /\ p \in Owners
    /\ Issue(p, "setlk", <<LockIno, p, typ, sleep>>)

RaceNext ==
    \E p \in Owners :
        \/ \E typ \in LockTypes, sleep \in BOOLEAN : IssueSetlk(p, typ, sleep)
        \/ Begin(p)
        \/ Commit(p)
        \/ Step(p)

RaceSpec == RaceInit /\ [][RaceNext]_vars

\* C10: lock state machine under interleaving.  The stored lock state of
\* the file is exclusive only with exactly one owner, and no two owners
\* hold grants answered Ok of which one is exclusive.
LockFsm ==
    /\ store[InodeKey(LockIno)].lk_type = "F_WRLCK"
          => Cardinality(store[InodeKey(LockIno)].owner_set) = 1
    /\ \A x, y \in holders :
          x[1] # y[1] => (x[2] # "F_WRLCK" /\ y[2] # "F_WRLCK")
\* ----------------------------------------------------------------------
\* Properties of the lock state machine.
\* ----------------------------------------------------------------------
\* a setlk request for the file has just been answered
Answered(typ) ==
    /\ nops' = nops + 1
    /\ lastRes'.op = "setlk"
    /\ lastRes'.arg[1] = LockIno
    /\ lastRes'.arg[3] = typ

\* C11: after any setlk requests of the owners (shared, exclusive, unlock,
\* sleeping or not, in any interleaving) the owner set of the file is
\* non-empty if and only if its lock type is not F_UNLCK.
OwnersIffLocked ==
    (store[InodeKey(LockIno)].owner_set # {})
        <=> (store[InodeKey(LockIno)].lk_type # "F_UNLCK")

\* an unlock was answered Ok and another owner still holds the lock
UnlockedBesideHolder ==
    \E p \in DOMAIN procs :
        /\ procs[p].op = "setlk"
        /\ procs[p].arg[3] = "F_UNLCK"
        /\ procs[p].reply.err = "Ok"
        /\ store[InodeKey(LockIno)].owner_set # {}
        /\ p \notin store[InodeKey(LockIno)].owner_set

\* C12: lock downgrade.  When owner o alone holds the exclusive lock, a
\* shared request of o is answered Ok and leaves the lock shared with the
\* owner set {o}.
LockDowngrade ==
    [][(/\ Answered("F_RDLCK")
        /\ LockState(store, LockIno) = <<"F_WRLCK", {lastRes'.arg[2]}>>)
       => /\ lastRes'.err = "Ok"
          /\ LockState(store', LockIno) = <<"F_RDLCK", {lastRes'.arg[2]}>>]_vars

\* C13: lock upgrade.  An exclusive request of owner o on a shared lock is
\* answered Ok with the lock exclusive and the owner set {o} when o is the
\* only shared owner; with any other owner in the set a non-sleeping request
\* fails with InvalidLock and changes nothing.
LockUpgrade ==
    [][(/\ Answered("F_WRLCK")
        /\ store[InodeKey(LockIno)].lk_type = "F_RDLCK")
       => IF store[InodeKey(LockIno)].owner_set = {lastRes'.arg[2]}
          THEN /\ lastRes'.err = "Ok"
               /\ LockState(store', LockIno) = <<"F_WRLCK", {lastRes'.arg[2]}>>
          ELSE /\ lastRes'.err = "InvalidLock"
               /\ LockState(store', LockIno) = LockState(store, LockIno)]_vars

\* an exclusive request of one of two shared owners was refused
UpgradeRefused ==
    /\ lastRes.op = "setlk"
    /\ lastRes.arg[1] = LockIno
    /\ lastRes.arg[3] = "F_WRLCK"
    /\ lastRes.err = "InvalidLock"
    /\ store[InodeKey(LockIno)].lk_type = "F_RDLCK"
    /\ lastRes.arg[2] \in store[InodeKey(LockIno)].owner_set
    /\ Cardinality(store[InodeKey(LockIno)].owner_set) = 2

\* C14: blocking lock.  A sleeping setlk request that meets a lock held by
\* another owner is never answered InvalidLock.
SleepNeverRefused ==
    \A p \in DOMAIN procs :
        (procs[p].op = "setlk" /\ procs[p].arg[4])
            => procs[p].reply.err # "InvalidLock"

\* C15: unlock.  An unlock of owner o on the file is answered Ok, takes o
\* out of the owner set and leaves the other owners; the lock type becomes
\* F_UNLCK exactly when the set becomes empty and is unchanged otherwise.
UnlockRemoves ==
    [][Answered("F_UNLCK")
       => /\ lastRes'.err = "Ok"
          /\ store'[InodeKey(LockIno)].owner_set
                = store[InodeKey(LockIno)].owner_set \ {lastRes'.arg[2]}
          /\ store'[InodeKey(LockIno)].lk_type
                = IF store'[InodeKey(LockIno)].owner_set = {} THEN "F_UNLCK"
                  ELSE store[InodeKey(LockIno)].lk_type]_vars

\* an unlock was answered and the lock is still shared by another owner
UnlockLeavesOthers ==
    /\ lastRes.op = "setlk"
    /\ lastRes.arg[1] = LockIno
    /\ lastRes.arg[3] = "F_UNLCK"
    /\ lastRes.err = "Ok"
    /\ store[InodeKey(LockIno)].lk_type = "F_RDLCK"
    /\ lastRes.arg[2] \notin store[InodeKey(LockIno)].owner_set
\* ----------------------------------------------------------------------
\* Inline specification: one regular file (inode 2, handle 0) that is
\* written, preallocated and resized, with a block size whose inline
\* threshold is two bytes.
\* ----------------------------------------------------------------------
InlineBlock == 2 * INLINE_DATA_THRESHOLD_BASE

\* Txn::fallocate
fallocate(t, inode, offset, length) ==
    LET target_size == offset + length IN
    IF target_size <= inode.size THEN Ok(t, 0)
    ELSE IF inode.inline_data # <<>> /\ target_size <= inline_data_threshold
    THEN LET w == write_inline_data(t, inode, inode.size,
                                    Zeros(target_size - inode.size))
         IN  Ok(w.t, 0)
    ELSE LET tr == IF inode.inline_data # <<>>
                   THEN transfer_inline_data_to_block(t, inode)
                   ELSE [t |-> t, inode |-> inode]
         IN  Ok(save_inode(tr.t, [tr.inode EXCEPT !.size = target_size]), 0)

InlineInit ==
    /\ backend \in {"kv", "mem"}
    /\ block_size = InlineBlock
    /\ direct_io = FALSE
    /\ store = FileStore
    /\ written = [k \in {} |-> 0]
    /\ lastRes = NoReply
    /\ nops = 0
    /\ allocated = {}
    /\ clean = TRUE
    /\ Quiet

\* offsets and sizes on both sides of the inline threshold and of the block
InlineOffsets == {0, 1, inline_data_threshold, block_size - 1, block_size}
InlineSizes == {0, 1, inline_data_threshold + 1, block_size + 1}

\* TiFs::write
IWrite(off, len) ==
    /\ nops < MaxInlineOps
    /\ \E r \in {write(View(store), FileIno, FileFh, off, Payload(nops + 1, len))} :
          /\ store' = Committed(r)
          /\ lastRes' = Reply("write", <<off, len>>, r)
          /\ clean' = (clean /\ r.err = "Ok")
    /\ nops' = nops + 1
    /\ UNCHANGED <<backend, block_size, direct_io, written, allocated, conc>>

\* TiFs::fallocate
IFallocate(offset, length) ==
    /\ nops < MaxInlineOps
    /\ \E i \in {read_inode(View(store), FileIno)} :
       \E r \in {IF i = <<>> THEN Err(View(store), "InodeNotFound")
                 ELSE fallocate(View(store), i[1], offset, length)} :
          /\ store' = Committed(r)
          /\ lastRes' = Reply("fallocate", <<offset, length>>, r)
          /\ clean' = (clean /\ r.err = "Ok")
    /\ nops' = nops + 1
    /\ UNCHANGED <<backend, block_size, direct_io, written, allocated, conc>>

\* TiFs::setattr with size = Some(size)
ISetattr(size) ==
    /\ nops < MaxInlineOps
    /\ \E r \in {setattr(View(store), FileIno, size)} :
          /\ store' = Committed(r)
          /\ lastRes' = [op |-> "setattr", arg |-> <<size>>, err |-> r.err, val |-> 0]
          /\ clean' = (clean /\ r.err = "Ok")
    /\ nops' = nops + 1
    /\ UNCHANGED <<backend, block_size, direct_io, written, allocated, conc>>

InlineNext ==
    \/ \E off \in InlineOffsets, len \in 1..MaxDataLen : IWrite(off, len)
    \/ \E off \in {0, 1}, length \in InlineSizes \ {0} : IFallocate(off, length)
    \/ \E size \in InlineSizes : ISetattr(size)

InlineSpec == InlineInit /\ [][InlineNext]_vars

\* C16: inline threshold.  After any writes, fallocates and size changes
\* the file has inline data only while its size is at most block_size / 16;
\* a write that takes the size past that leaves no inline data.
InlineThreshold ==
    store[InodeKey(FileIno)].inline_data # <<>>
        => store[InodeKey(FileIno)].size <= inline_data_threshold

\* C17: after any writes, fallocates and size changes, whenever the file
\* has inline data its size is the length of the inline data.
InlineSizeIsLength ==
    store[InodeKey(FileIno)].inline_data # <<>>
        => store[InodeKey(FileIno)].size = Len(store[InodeKey(FileIno)].inline_data[1])
\* ----------------------------------------------------------------------
\* Spin specification: create requests for one and the same name under
\* the root, in flight together on the distributed backend.
\* ----------------------------------------------------------------------
SpinInit ==
    /\ backend = "kv"
    /\ block_size = SmallBlock
    /\ direct_io = FALSE
    /\ store = MountedStore
    /\ written = [k \in {} |-> 0]
    /\ lastRes = NoReply
    /\ nops = 0
    /\ allocated = {}
    /\ clean = TRUE
    /\ procs = [p \in Creators |-> Idle(MaxSpinReqs)]
    /\ versions = NoVersions
    /\ holders = {}

\* TiFs::create of the name "a"
IssueSame(p) ==
    /\ p \in Creators
    /\ Issue(p, "create", <<ROOT_INODE, "a">>)

SpinNext ==
    \E p \in Creators : IssueSame(p) \/ Begin(p) \/ Commit(p)

SpinSpec == SpinInit /\ [][SpinNext]_vars

\* a key that view t has written was committed by another transaction after ts
Overwritten(t, ts) ==
    \E k \in t.w : k \in DOMAIN versions.at /\ versions.at[k] > ts

AbsentNameFails ==
    \A parent \in Inos, name \in Names :
        IndexKey(parent, name) \notin DOMAIN store =>
            \A r \in {unlink(View(store), parent, name),
                      rmdir(View(store), parent, name)} :
                /\ r.err = "FileNotFound"
                /\ r.t.kv = store
                /\ Committed(r) = store

\* an unlink or rmdir was answered FileNotFound after names were removed
AbsentNameRefused ==
    /\ lastRes.op \in {"unlink", "rmdir"}
    /\ lastRes.err = "FileNotFound"
    /\ nops > 2

\* C20: a mknod or mkdir of a name that already resolves under the parent
\* fails with FileExist and leaves the store (meta, index, directory blocks
\* and inodes) as it was, in both backends.
ExistingNameRefused ==
    [][(/\ nops' = nops + 1
        /\ lastRes'.op \in {"mknod", "mkdir"}
        /\ lastRes'.err = "FileExist")
       => store' = store]_vars
\* ----------------------------------------------------------------------
\* Properties of handles and link counts.
\* ----------------------------------------------------------------------
HandleKeysOf(st, ino) == {k \in DOMAIN st : k[1] = "H" /\ k[2] = ino}

\* C22: handle accounting.  After any requests, for every stored handle
\* record (ino, fh) the inode record of ino exists, and the opened_fh of
\* every inode is the number of its stored handle records.
HandleAccounting ==
    /\ \A k \in DOMAIN store : k[1] = "H" => InodeKey(k[2]) \in DOMAIN store
    /\ \A ino \in UserInos :
          InodeKey(ino) \in DOMAIN store =>
              store[InodeKey(ino)].opened_fh = Cardinality(HandleKeysOf(store, ino))

\* a file that has lost its last name is kept for its open handle
OpenAfterUnlink ==
    \E ino \in UserInos :
        /\ InodeKey(ino) \in DOMAIN store
        /\ store[InodeKey(ino)].nlink = 0
        /\ HandleKeysOf(store, ino) # {}
\* ----------------------------------------------------------------------
\* Open specification: open requests for one file, in flight together on
\* the memory backend.
\* ----------------------------------------------------------------------
OpenInit ==
    /\ backend = "mem"
    /\ block_size = SmallBlock
    /\ direct_io = FALSE
    /\ \E mounted \in {MountedStore} :
          store = make_inode(View(mounted), ROOT_INODE, "a", "RegularFile").t.kv
    /\ written = [k \in {} |-> 0]
    /\ lastRes = NoReply
    /\ nops = 0
    /\ allocated = {}
    /\ clean = TRUE
    /\ procs = [p \in Creators |-> Idle(MaxOpens)]
    /\ versions = NoVersions
    /\ holders = {}

\* TiFs::open
IssueOpen(p) ==
    /\ p \in Creators
    /\ Issue(p, "open", <<FileIno>>)

OpenNext ==
    \E p \in Creators : IssueOpen(p) \/ Step(p)

OpenSpec == OpenInit /\ [][OpenNext]_vars

\* C21: memory backend serialization.  When the open requests of the tasks
\* have all been answered, the outcome is that of the requests run one
\* after the other: every open succeeded, the handle ids answered last to
\* different tasks differ, and opened_fh and the number of handle records
\* are the number of opens.
OpensSerialized ==
    AllAnswered =>
        /\ \A p \in Creators : procs[p].reply.err = "Ok"
        /\ \A p, q \in Creators :
              p # q => procs[p].reply.val[2] # procs[q].reply.val[2]
        /\ store[InodeKey(FileIno)].opened_fh = MaxCreators * MaxOpens
        /\ Cardinality(HandleKeysOf(store, FileIno)) = MaxCreators * MaxOpens
\* ----------------------------------------------------------------------
\* Properties of file content.
\* ----------------------------------------------------------------------
WrittenBy(n) == {k \in DOMAIN written : written[k] = n}
Lowest(S) == CHOOSE k \in S : \A j \in S : k <= j
Highest(S) == CHOOSE k \in S : \A j \in S : k >= j

\* the first write covered [a, b), the second [c, d) with b < c, and the
\* read that followed starts at a and asks for d - a bytes or more
HoleRead ==
    /\ nops = 3
    /\ lastRes.op = "read"
    /\ lastRes.err = "Ok"
    /\ WrittenBy(1) # {}
    /\ WrittenBy(2) # {}
    /\ Highest(WrittenBy(1)) + 1 < Lowest(WrittenBy(2))
    /\ lastRes.arg[1] = Lowest(WrittenBy(1))
    /\ lastRes.arg[2] >= Highest(WrittenBy(2)) + 1 - Lowest(WrittenBy(1))

\* C23: sparse hole zero-fill.  After a write of [a, b) and a write of
\* [c, d) with b < c to the empty file, the size is d and the read of
\* [a, d) returns the written bytes with zeros in [b, c).
SparseHoleZeroFill ==
    HoleRead =>
        /\ FileSize = Highest(WrittenBy(2)) + 1
        /\ lastRes.val = [i \in 1..(FileSize - lastRes.arg[1]) |->
                             Expected(lastRes.arg[1] + i - 1)]

\* the names in the index that resolve to ino
NamesOf(ino) == {k \in DOMAIN store : k[1] = "X" /\ store[k] = ino}

\* C24: link count.  After successful mknod, link, unlink and rename
\* requests every stored inode that is not a directory has nlink equal to
\* the number of index entries that resolve to it.
LinkCount ==
    clean =>
        \A ino \in UserInos :
            (InodeKey(ino) \in DOMAIN store /\ store[InodeKey(ino)].kind # "Directory")
                => store[InodeKey(ino)].nlink = Cardinality(NamesOf(ino))

\* a written file was linked as b, its first name was unlinked, and it is
\* reachable as b alone with nlink 1 and its data
LinkedThenUnlinked ==
    /\ clean
    /\ lastRes.op = "unlink"
    /\ \E ino \in UserInos :
          /\ InodeKey(ino) \in DOMAIN store
          /\ NamesOf(ino) = {IndexKey(ROOT_INODE, "b")}
          /\ store[InodeKey(ino)].nlink = 1
          /\ store[InodeKey(ino)].size > 0
\* ----------------------------------------------------------------------
\* Properties of inline data.
\* ----------------------------------------------------------------------
\* the file as mknod made it: no bytes, no inline data, no block
Fresh(st) ==
    /\ st[InodeKey(FileIno)].size = 0
    /\ st[InodeKey(FileIno)].inline_data = <<>>
    /\ BlockKeysOf(st, FileIno) = {}

\* the request answered by this step
Done(op) ==
    /\ nops' = nops + 1
    /\ lastRes'.op = op

DirectoryLockRefused ==
    /\ LockState(store, LockDir) = <<"F_UNLCK", {}>>
    /\ \A lock_owner \in Owners, typ \in LockTypes, sleep \in BOOLEAN :
          \A r \in {setlk(View(store), LockDir, lock_owner, typ, sleep)} :
              /\ r.err = "InvalidLock"
              /\ r.t.kv = store
              /\ Committed(r) = store

\* a lock request for the directory was refused while the file is locked
DirectoryRefused ==
    /\ lastRes.op = "setlk"
    /\ lastRes.arg[1] = LockDir
    /\ lastRes.err = "InvalidLock"
    /\ store[InodeKey(LockIno)].lk_type # "F_UNLCK"

\* C27: promotion preserves content.  When a write or a fallocate turns
\* the inline file into a block file, the inode has no inline data any
\* more, block 0 is the former inline buffer padded with zeros to
\* block_size with the written bytes that fall into block 0 copied over
\* it, and a read of the whole file returns every former inline byte that
\* lies inside the file and that the write did not cover.
Promoted ==
    /\ Done("write") \/ Done("fallocate")
    /\ store[InodeKey(FileIno)].inline_data # <<>>
    /\ store'[InodeKey(FileIno)].inline_data = <<>>

InBlockZero(off, len) ==
    IF off < block_size
    THEN Splice(Resize(store[InodeKey(FileIno)].inline_data[1], block_size),
                off, Payload(nops', Min(block_size - off, len)))
    ELSE Resize(store[InodeKey(FileIno)].inline_data[1], block_size)

PromotionPreserves ==
    [][Promoted
       => /\ lastRes'.err = "Ok"
          /\ BlockKey(FileIno, 0) \in DOMAIN store'
          /\ store'[BlockKey(FileIno, 0)].bytes
                = IF lastRes'.op = "write"
                  THEN InBlockZero(lastRes'.arg[1], lastRes'.arg[2])
                  ELSE Resize(store[InodeKey(FileIno)].inline_data[1], block_size)
          /\ \E rd \in {read_data(View(store'), FileIno, 0,
                                  store'[InodeKey(FileIno)].size)} :
                /\ rd.err = "Ok"
                /\ \A i \in 1..Min(Len(store[InodeKey(FileIno)].inline_data[1]),
                                   store'[InodeKey(FileIno)].size) :
                      (lastRes'.op = "write"
                         => (i <= lastRes'.arg[1]
                             \/ i > lastRes'.arg[1] + lastRes'.arg[2]))
                      => /\ i <= Len(rd.val)
                         /\ rd.val[i] = store[InodeKey(FileIno)].inline_data[1][i]]_vars

\* an inline byte was moved to block 0 by a write across the block boundary
PromotedByWrite ==
    /\ nops = 2
    /\ lastRes.op = "write"
    /\ lastRes.arg = <<block_size - 1, 2>>
    /\ store[InodeKey(FileIno)].inline_data = <<>>
    /\ BlockKey(FileIno, 0) \in DOMAIN store
    /\ store[BlockKey(FileIno, 0)].bytes[1] = 1
    /\ store[BlockKey(FileIno, 0)].bytes[block_size] = 2

\* the bytes of the file in st at the positions n .. size - 1 that lie
\* outside off .. off + len - 1 read as zero
ZeroBetween(st, n, off, len) ==
    \A rd \in {read_data(View(st), FileIno, 0, st[InodeKey(FileIno)].size)} :
        /\ rd.err = "Ok"
        /\ \A i \in (n + 1)..st[InodeKey(FileIno)].size :
              (i <= off \/ i > off + len)
                  => /\ i <= Len(rd.val)
                     /\ rd.val[i] = 0

\* the store after setattr(size = n) on st
Shrunk(st, n) == Committed(setattr(View(st), FileIno, n))

\* C28: shrink then extend.  From any state of the file, inline or in
\* blocks, a setattr to a smaller size n followed by a write that begins at
\* or past n, or by a fallocate that ends past n, leaves every byte of
\* n .. new size - 1 that the write did not cover reading as zero.
ShrinkThenExtend ==
    \A n \in InlineSizes :
        n < store[InodeKey(FileIno)].size =>
        \A s1 \in {Shrunk(store, n)} :
            /\ \A off \in InlineOffsets, len \in 1..MaxDataLen :
                  off >= n =>
                  \A s2 \in {Committed(write(View(s1), FileIno, FileFh, off,
                                             Payload(nops + 1, len)))} :
                      ZeroBetween(s2, n, off, len)
            /\ \A offset \in {0, 1}, length \in InlineSizes \ {0} :
                  offset + length > n =>
                  \A s2 \in {Committed(fallocate(View(s1), s1[InodeKey(FileIno)],
                                                 offset, length))} :
                      ZeroBetween(s2, n, 0, 0)

\* C29: in every state of the file, a read that starts at or past the size
\* of the file is answered with an empty buffer and leaves the store as it
\* was; a read that starts below the size is answered with
\* min(requested size, size - start) bytes.
ReadClamped ==
    \A off \in Offsets, size \in {1, MaxBlocks * block_size} :
        \A r \in {read(View(store), FileIno, FileFh, off, size)} :
            /\ r.err = "Ok"
            /\ IF off >= store[InodeKey(FileIno)].size
               THEN /\ r.val = <<>>
                    /\ r.t.kv = store
                    /\ Committed(r) = store
               ELSE Len(r.val) = Min(size, store[InodeKey(FileIno)].size - off)

\* a read at the end of a file with a hole was answered with nothing
ReadAtEnd ==
    /\ lastRes.op = "read"
    /\ lastRes.err = "Ok"
    /\ lastRes.arg[1] = store[InodeKey(FileIno)].size
    /\ lastRes.val = <<>>
    /\ store[InodeKey(FileIno)].size > block_size
    /\ BlockKey(FileIno, 0) \notin DOMAIN store

\* the whole file as a read returns it
Content(st) == read_data(View(st), FileIno, 0, st[InodeKey(FileIno)].size).val

\* C30: fallocate.  A fallocate(offset, length) with offset + length at
\* most the size changes nothing.  Otherwise it is answered Ok, the size
\* becomes offset + length, the only block key that may appear is block 0
\* of a file that was inline, the bytes below the old size read as before
\* and the bytes from the old size on read as zero.
FallocateExtends ==
    [][Done("fallocate")
       => /\ lastRes'.err = "Ok"
          /\ IF lastRes'.arg[1] + lastRes'.arg[2] <= store[InodeKey(FileIno)].size
             THEN store' = store
             ELSE /\ store'[InodeKey(FileIno)].size
                        = lastRes'.arg[1] + lastRes'.arg[2]
                  /\ BlockKeysOf(store', FileIno) \ BlockKeysOf(store, FileIno)
                        \subseteq (IF store[InodeKey(FileIno)].inline_data # <<>>
                                   THEN {BlockKey(FileIno, 0)} ELSE {})
                  /\ Len(Content(store')) = store'[InodeKey(FileIno)].size
                  /\ \A i \in 1..Len(Content(store')) :
                        Content(store')[i]
                            = IF i <= store[InodeKey(FileIno)].size
                              THEN Content(store)[i] ELSE 0]_vars

\* ----------------------------------------------------------------------
\* Handle specification: one regular file that is opened, released,
\* sought, read and written through its handles, with and without the
\* DirectIO mount option.
\* ----------------------------------------------------------------------
SEEK_SET == 0
SEEK_CUR == 1
SEEK_END == 2
O_DIRECT == 16384
FOPEN_DIRECT_IO == 1

\* a | b on non-negative integers
RECURSIVE BitOr(_, _)
BitOr(a, b) ==
    IF a = 0 THEN b
    ELSE IF b = 0 THEN a
    ELSE 2 * BitOr(a \div 2, b \div 2) + Max(a % 2, b % 2)

\* TiFs::open: the flags of the reply
open_flags(flags) ==
    IF direct_io \/ BitOr(flags, O_DIRECT) # 0
    THEN BitOr(0, FOPEN_DIRECT_IO) ELSE 0

\* an lseek that takes SEEK_END from the start of the file
lseek_endless(t, ino, fh, offset, whence) ==
    LET h == read_fh(t, ino, fh) IN
    IF h = <<>> THEN Err(t, "FhNotFound")
    ELSE IF whence \notin {SEEK_SET, SEEK_CUR, SEEK_END}
    THEN Err(t, "UnknownWhence")
    ELSE LET target_cursor == IF whence = SEEK_CUR THEN h[1].cursor + offset
                              ELSE offset
         IN  IF target_cursor < 0 THEN Err(t, "InvalidOffset")
             ELSE Ok(save_fh(t, ino, fh, [h[1] EXCEPT !.cursor = target_cursor]),
                     target_cursor)

\* TiFs::lseek (the closure run in the transaction)
lseek(t, ino, fh, offset, whence) ==
    LET h == read_fh(t, ino, fh) IN
    IF h = <<>> THEN Err(t, "FhNotFound")
    ELSE LET r == read_inode(t, ino) IN
    IF r = <<>> THEN Err(t, "InodeNotFound")
    ELSE IF whence \notin {SEEK_SET, SEEK_CUR, SEEK_END}
    THEN Err(t, "UnknownWhence")
    ELSE LET target_cursor == CASE whence = SEEK_SET -> offset
                                [] whence = SEEK_CUR -> h[1].cursor + offset
                                [] whence = SEEK_END -> r[1].size + offset
         IN  IF target_cursor < 0 THEN Err(t, "InvalidOffset")
             ELSE Ok(save_fh(t, ino, fh, [h[1] EXCEPT !.cursor = target_cursor]),
                     target_cursor)

HandleInit ==
    /\ backend \in {"kv", "mem"}
    /\ block_size = SmallBlock
    /\ direct_io \in BOOLEAN
    /\ \E mounted \in {MountedStore} :
          store = make_inode(View(mounted), ROOT_INODE, "f", "RegularFile").t.kv
    /\ written = [k \in {} |-> 0]
    /\ lastRes = NoReply
    /\ nops = 0
    /\ allocated = {}
    /\ clean = TRUE
    /\ Quiet

Fhs == 0 .. (MaxHandles - 1)
SeekOffsets == {-1, 0, 1}
Whences == {SEEK_SET, SEEK_CUR, SEEK_END, SEEK_END + 1}
OpenFlags == {0, 2, O_DIRECT}

\* a request of the handle specification was answered with r
Handled(op, arg, r, val, ids) ==
    /\ nops < MaxHandleOps
    /\ nops' = nops + 1
    /\ store' = Committed(r)
    /\ lastRes' = [op |-> op, arg |-> arg, err |-> r.err,
                   val |-> IF r.err = "Ok" THEN val ELSE 0]
    /\ allocated' = IF r.err = "Ok" THEN allocated \cup ids ELSE allocated
    /\ clean' = (clean /\ r.err = "Ok")
    /\ UNCHANGED <<backend, block_size, direct_io, written, conc>>

\* TiFs::open
HOpen(flags) ==
    /\ store[InodeKey(FileIno)].next_fh < MaxHandles
    /\ \E r \in {open(View(store), FileIno)} :
          Handled("open", <<flags>>, r, <<r.val, open_flags(flags)>>, {r.val})

\* TiFs::release
HRelease(fh) ==
    /\ fh \in Fhs
    /\ Handled("release", <<fh>>, close(View(store), FileIno, fh), 0, {})

\* TiFs::lseek
HLseek(fh, offset, whence) ==
    /\ fh \in Fhs
    /\ \E r \in {lseek(View(store), FileIno, fh, offset, whence)} :
          Handled("lseek", <<fh, offset, whence>>, r, r.val, {})

\* TiFs::read
HRead(fh, offset, size) ==
    /\ fh \in Fhs
    /\ \E r \in {read(View(store), FileIno, fh, offset, size)} :
          Handled("read", <<fh, offset, size>>, r, r.val, {})

\* TiFs::write
HWrite(fh, offset, len) ==
    /\ fh \in Fhs
    /\ \E r \in {write(View(store), FileIno, fh, offset, Payload(nops + 1, len))} :
          Handled("write", <<fh, offset, len>>, r, r.val, {})

HandleNext ==
    \/ \E flags \in OpenFlags : HOpen(flags)
    \/ \E fh \in Fhs : HRelease(fh)
    \/ \E fh \in Fhs, offset \in SeekOffsets, whence \in Whences :
          HLseek(fh, offset, whence)
    \/ \E fh \in Fhs, offset \in SeekOffsets : HRead(fh, offset, block_size)
    \/ \E fh \in Fhs, offset \in SeekOffsets : HWrite(fh, offset, 1)

HandleSpec == HandleInit /\ [][HandleNext]_vars

\* C31: handle ids.  In every state an open of the file is answered with
\* fh = next_fh, an id never handed out before, stores the handle fh with
\* cursor 0, adds one to next_fh and to opened_fh and leaves the other
\* handles; a release of an id that has no handle (never handed out, or
\* released already) fails with FhNotFound and writes nothing.
HandleIds ==
    /\ \A r \in {open(View(store), FileIno)} :
       \A after \in {Committed(r)} :
          /\ r.err = "Ok"
          /\ r.val = store[InodeKey(FileIno)].next_fh
          /\ r.val \notin allocated
          /\ HandlerKey(FileIno, r.val) \notin DOMAIN store
          /\ after[HandlerKey(FileIno, r.val)] = [cursor |-> 0]
          /\ after[InodeKey(FileIno)].next_fh = store[InodeKey(FileIno)].next_fh + 1
          /\ after[InodeKey(FileIno)].opened_fh
                = store[InodeKey(FileIno)].opened_fh + 1
          /\ \A k \in HandleKeysOf(store, FileIno) :
                k \in DOMAIN after /\ after[k] = store[k]
    /\ \A fh \in 0..MaxHandles :
          HandlerKey(FileIno, fh) \notin DOMAIN store =>
          \A r \in {close(View(store), FileIno, fh)} :
              /\ r.err = "FhNotFound"
              /\ r.t.kv = store
              /\ Committed(r) = store

\* a handle was released twice while a later handle is open: the second
\* release was refused
ReleasedTwice ==
    /\ lastRes.op = "release"
    /\ lastRes.err = "FhNotFound"
    /\ lastRes.arg[1] \in allocated
    /\ HandleKeysOf(store, FileIno) = {HandlerKey(FileIno, 1)}
    /\ store[InodeKey(FileIno)].opened_fh = 1

\* the position the request lseek(fh, offset, whence) asks for
Sought(fh, offset, whence) ==
    CASE whence = SEEK_SET -> offset
      [] whence = SEEK_CUR -> store[HandlerKey(FileIno, fh)].cursor + offset
      [] whence = SEEK_END -> store[InodeKey(FileIno)].size + offset
      [] OTHER -> -1

\* C32: lseek.  In every state and for every open handle, lseek answers
\* offset (SEEK_SET), cursor + offset (SEEK_CUR) or size + offset
\* (SEEK_END) and stores it as the cursor of the handle, changing no other
\* key; an unknown whence fails with UnknownWhence and a negative position
\* with InvalidOffset, and both leave the store as it was.
LseekCursor ==
    \A fh \in Fhs :
        HandlerKey(FileIno, fh) \in DOMAIN store =>
        \A offset \in -2..2, whence \in Whences :
        \A r \in {lseek(View(store), FileIno, fh, offset, whence)} :
        \A after \in {Committed(r)} :
            IF whence \notin {SEEK_SET, SEEK_CUR, SEEK_END}
            THEN r.err = "UnknownWhence" /\ after = store /\ r.t.kv = store
            ELSE IF Sought(fh, offset, whence) < 0
            THEN r.err = "InvalidOffset" /\ after = store /\ r.t.kv = store
            ELSE /\ r.err = "Ok"
                 /\ r.val = Sought(fh, offset, whence)
                 /\ DOMAIN after = DOMAIN store
                 /\ after[HandlerKey(FileIno, fh)].cursor = r.val
                 /\ \A k \in DOMAIN store :
                       k # HandlerKey(FileIno, fh) => after[k] = store[k]

\* a handle was moved one byte past the end of a file of one byte
SoughtPastEnd ==
    /\ lastRes.op = "lseek"
    /\ lastRes.err = "Ok"
    /\ lastRes.arg = <<0, 1, SEEK_END>>
    /\ lastRes.val = 2
    /\ store[InodeKey(FileIno)].size = 1
    /\ store[HandlerKey(FileIno, 0)].cursor = 2

\* the byte stored for position pos of the file in st: in the inline
\* buffer, in the block of pos, or a zero where nothing is stored
ByteAt(st, pos) ==
    IF st[InodeKey(FileIno)].inline_data # <<>>
    THEN (IF pos < Len(st[InodeKey(FileIno)].inline_data[1])
          THEN st[InodeKey(FileIno)].inline_data[1][pos + 1] ELSE 0)
    ELSE IF BlockKey(FileIno, pos \div block_size) \in DOMAIN st
    THEN st[BlockKey(FileIno, pos \div block_size)].bytes[(pos % block_size) + 1]
    ELSE 0

\* the bytes a read of size bytes at position start of the file in st is
\* to return
Slice(st, start, size) ==
    IF start >= st[InodeKey(FileIno)].size THEN <<>>
    ELSE [i \in 1..Min(size, st[InodeKey(FileIno)].size - start) |->
             ByteAt(st, start + i - 1)]

\* C33: cursor and offset.  In every state, for every handle id and
\* offset: a read or write through an id that has no handle fails with
\* FhNotFound, one whose cursor + offset is negative fails with
\* InvalidOffset, and both leave the store as it was; otherwise the read
\* returns the bytes stored from position cursor + offset on, the write
\* stores its byte for position cursor + offset and leaves the other
\* bytes of the file, and neither changes the cursor of the handle.
CursorPlusOffset ==
    \A fh \in 0..MaxHandles, offset \in -2..2 :
    \A r \in {read(View(store), FileIno, fh, offset, block_size + 1)} :
    \A w \in {write(View(store), FileIno, fh, offset, <<9>>)} :
        IF HandlerKey(FileIno, fh) \notin DOMAIN store
        THEN /\ r.err = "FhNotFound" /\ Committed(r) = store /\ r.t.kv = store
             /\ w.err = "FhNotFound" /\ Committed(w) = store /\ w.t.kv = store
        ELSE IF store[HandlerKey(FileIno, fh)].cursor + offset < 0
        THEN /\ r.err = "InvalidOffset" /\ Committed(r) = store /\ r.t.kv = store
             /\ w.err = "InvalidOffset" /\ Committed(w) = store /\ w.t.kv = store
        ELSE \A start \in {store[HandlerKey(FileIno, fh)].cursor + offset} :
             /\ r.err = "Ok"
             /\ r.val = Slice(store, start, block_size + 1)
             /\ Committed(r)[HandlerKey(FileIno, fh)] = store[HandlerKey(FileIno, fh)]
             /\ w.err = "Ok"
             /\ Committed(w)[HandlerKey(FileIno, fh)] = store[HandlerKey(FileIno, fh)]
             /\ Committed(w)[InodeKey(FileIno)].size
                   = Max(store[InodeKey(FileIno)].size, start + 1)
             /\ ByteAt(Committed(w), start) = 9
             /\ \A pos \in 0..(store[InodeKey(FileIno)].size - 1) :
                   pos # start => ByteAt(Committed(w), pos) = ByteAt(store, pos)

\* a write through a handle whose cursor is 1 put its byte at position 1
WroteAtCursor ==
    /\ lastRes.op = "write"
    /\ lastRes.err = "Ok"
    /\ lastRes.arg = <<0, 0, 1>>
    /\ store[HandlerKey(FileIno, 0)].cursor = 1
    /\ store[InodeKey(FileIno)].size = 2
    /\ ByteAt(store, 0) = 0
    /\ ByteAt(store, 1) = nops

\* the flag word has the bit (a power of two) set
Includes(flags, bit) == (flags \div bit) % 2 = 1

\* C40: direct I/O.  The reply of an open has FOPEN_DIRECT_IO set exactly
\* when the DirectIO mount option is active or the flags of the open
\* include O_DIRECT.
DirectIoFlag ==
    (lastRes.op = "open" /\ lastRes.err = "Ok")
        => (Includes(lastRes.val[2], FOPEN_DIRECT_IO)
              <=> (direct_io \/ Includes(lastRes.arg[1], O_DIRECT)))

\* ----------------------------------------------------------------------
\* Mount specification: a store that is initialised, mounted again, and
\* whose root directory gets and loses files, directories and symbolic
\* links under short and long names; directories are listed and links
\* are read.
\* ----------------------------------------------------------------------
MAX_NAME_LEN == 256

\* names of 256 and of 257 bytes
Name256 == "x256"
Name257 == "x257"
MountNames == {"a", "b", Name256, Name257}

\* str::len
name_len(name) ==
    CASE name = Name256 -> 256
      [] name = Name257 -> 257
      [] OTHER -> 1

\* TiFs::check_file_name
check_file_name(name) ==
    IF name_len(name) <= MAX_NAME_LEN THEN "Ok" ELSE "NameTooLong"

\* Txn::write_link
write_link(t, inode, data) ==
    write_inline_data(t, [inode EXCEPT !.inline_data = <<>>, !.size = 0], 0, data)

\* Txn::read_link / LocalTxn::read_link
read_link(t, ino) ==
    LET r == read_inode(t, ino) IN
    IF r = <<>> THEN Err(t, "InodeNotFound")
    ELSE read_inline_data(t, r[1], 0, r[1].size)

\* TiFs::symlink (the closure run in the transaction)
symlink(t, parent, name, link_target) ==
    LET r == make_inode(t, parent, name, "Symlink") IN
    IF r.err # "Ok" THEN r
    ELSE LET w == write_link(r.t, r.val, link_target) IN
         IF w.err # "Ok" THEN w ELSE Ok(w.t, r.val.ino)

\* a readdir that skips offset stored entries
readdir_skipping(t, ino, offset) ==
    LET dotdot == IF offset = 0
                  THEN <<DirItem(ROOT_INODE, "..", "Directory")>> ELSE <<>>
        dot == IF offset <= 1 THEN <<DirItem(ino, ".", "Directory")>> ELSE <<>>
        directory == read_dir(t, ino)
    IN  IF directory.err # "Ok" THEN Err(t, directory.err)
        ELSE Ok(t, dotdot \o dot \o Skip(directory.val, offset))

\* TiFs::readdir (the closure run in the transaction and the items pushed
\* around it)
readdir(t, ino, offset) ==
    LET dotdot == IF offset = 0
                  THEN <<DirItem(ROOT_INODE, "..", "Directory")>> ELSE <<>>
        dot == IF offset <= 1 THEN <<DirItem(ino, ".", "Directory")>> ELSE <<>>
        directory == read_dir(t, ino)
    IN  IF directory.err # "Ok" THEN Err(t, directory.err)
        ELSE Ok(t, dotdot \o dot \o Skip(directory.val, offset - Min(2, offset)))

BlockSizes == {SmallBlock, 2 * SmallBlock}
LinkTargets == {<<7>>, <<7, 8, 9>>}
DirOffsets == 0..4

MountInit ==
    /\ backend \in {"kv", "mem"}
    /\ block_size = SmallBlock
    /\ direct_io = FALSE
    /\ store = EmptyStore
    /\ written = [k \in {} |-> 0]
    /\ lastRes = NoReply
    /\ nops = 0
    /\ allocated = {}
    /\ clean = TRUE
    /\ Quiet

\* init has succeeded for the block size of this mount
Mounted ==
    /\ MetaKey \in DOMAIN store
    /\ store[MetaKey].block_size = block_size
    /\ InodeKey(ROOT_INODE) \in DOMAIN store

\* a request of the mount specification was answered with r
Answer(op, arg, r, val) ==
    /\ nops < MaxMountOps
    /\ nops' = nops + 1
    /\ store' = Committed(r)
    /\ lastRes' = [op |-> op, arg |-> arg, err |-> r.err,
                   val |-> IF r.err = "Ok" THEN val ELSE 0]
    /\ allocated' = allocated
    /\ clean' = (clean /\ r.err = "Ok")
    /\ UNCHANGED <<backend, direct_io, written, conc>>

\* a request that takes a name: check_file_name, then the transaction
Named(op, name, arg, r, val) ==
    \E c \in {check_file_name(name)} :
        Answer(op, arg, IF c = "Ok" THEN r ELSE Err(View(store), c), val)

\* TiFs::init, at the first mount and at any later one
MInit ==
    /\ Answer("init", <<block_size>>, init(View(store)), 0)
    /\ UNCHANGED block_size

\* TiFs::construct with another blksize option on the same TiKV store
\* (the map of the memory backend does not outlive its TiFs)
MConstruct(bs) ==
    /\ backend = "kv"
    /\ bs # block_size
    /\ block_size' = bs
    /\ nops < MaxMountOps
    /\ nops' = nops + 1
    /\ lastRes' = [op |-> "construct", arg |-> <<bs>>, err |-> "Ok", val |-> 0]
    /\ UNCHANGED <<store, backend, direct_io, written, allocated, clean, conc>>

\* TiFs::mknod
MMknod(name) ==
    /\ Mounted
    /\ InodeNext <= MaxIno
    /\ Named("mknod", name, <<ROOT_INODE, name>>,
             make_inode(View(store), ROOT_INODE, name, "RegularFile"), InodeNext)
    /\ UNCHANGED block_size

\* TiFs::mkdir
MMkdir(name) ==
    /\ Mounted
    /\ InodeNext <= MaxIno
    /\ Named("mkdir", name, <<ROOT_INODE, name>>,
             mkdir(View(store), ROOT_INODE, name), InodeNext)
    /\ UNCHANGED block_size

\* TiFs::symlink
MSymlink(name, link_target) ==
    /\ Mounted
    /\ InodeNext <= MaxIno
    /\ Named("symlink", name, <<ROOT_INODE, name, link_target>>,
             symlink(View(store), ROOT_INODE, name, link_target), InodeNext)
    /\ UNCHANGED block_size

\* TiFs::unlink: no check of the name
MUnlink(name) ==
    /\ Mounted
    /\ NamesFile(ROOT_INODE, name)
    /\ Answer("unlink", <<ROOT_INODE, name>>,
              unlink(View(store), ROOT_INODE, name), 0)
    /\ UNCHANGED block_size

\* TiFs::rmdir
MRmdir(name) ==
    /\ Mounted
    /\ Named("rmdir", name, <<ROOT_INODE, name>>,
             rmdir(View(store), ROOT_INODE, name), 0)
    /\ UNCHANGED block_size

\* TiFs::readdir, sent for a directory
MReaddir(ino, offset) ==
    /\ Mounted
    /\ InodeKey(ino) \in DOMAIN store
    /\ store[InodeKey(ino)].kind = "Directory"
    /\ \E r \in {readdir(View(store), ino, offset)} :
          Answer("readdir", <<ino, offset>>, r, r.val)
    /\ UNCHANGED block_size

\* TiFs::readlink: always through spin_local, that is a LocalTxn on
\* TiFs.entry_map, which nothing writes in the kv_store build
readlink(ino) ==
    read_link(View(IF backend = "kv" THEN EmptyStore ELSE store), ino)

\* TiFs::readlink, sent for a symbolic link
MReadlink(ino) ==
    /\ Mounted
    /\ InodeKey(ino) \in DOMAIN store
    /\ store[InodeKey(ino)].kind = "Symlink"
    /\ nops < MaxMountOps
    /\ nops' = nops + 1
    /\ \E r \in {readlink(ino)} :
          /\ store' = IF backend = "kv" THEN store ELSE r.t.kv
          /\ lastRes' = [op |-> "readlink", arg |-> <<ino>>, err |-> r.err,
                         val |-> IF r.err = "Ok" THEN r.val ELSE 0]
          /\ clean' = (clean /\ r.err = "Ok")
    /\ UNCHANGED <<backend, block_size, direct_io, written, allocated, conc>>

MountNext ==
    \/ MInit
    \/ \E bs \in BlockSizes : MConstruct(bs)
    \/ \E name \in MountNames : MMknod(name)
    \/ \E name \in MountNames : MMkdir(name)
    \/ \E name \in MountNames, link_target \in LinkTargets : MSymlink(name, link_target)
    \/ \E name \in MountNames : MUnlink(name)
    \/ \E name \in MountNames : MRmdir(name)
    \/ \E ino \in Inos, offset \in DirOffsets : MReaddir(ino, offset)
    \/ \E ino \in UserInos : MReadlink(ino)

MountSpec == MountInit /\ [][MountNext]_vars

\* the stored entries of directory ino
Stored(ino) == store[BlockKey(ino, 0)].items

\* the listing of directory ino from offset 0
Listing(ino) ==
    <<DirItem(ROOT_INODE, "..", "Directory"), DirItem(ino, ".", "Directory")>>
        \o Stored(ino)

\* C34: readdir.  For every directory and every offset k, readdir is
\* answered with the listing from 0 without its first k items: '..' at
\* offset 0 only, '.' at offsets 0 and 1 only, then the stored entries from
\* index max(0, k - 2) on.  The stored entries are in the order of their
\* insertion (here the order of the inode numbers, which creations hand
\* out in increasing order).
ReaddirListing ==
    \A ino \in Inos :
        (InodeKey(ino) \in DOMAIN store /\ store[InodeKey(ino)].kind = "Directory")
        => /\ BlockKey(ino, 0) \in DOMAIN store
           /\ \A i, j \in 1..Len(Stored(ino)) :
                 i < j => Stored(ino)[i].ino < Stored(ino)[j].ino
           /\ \A k \in DirOffsets :
              \A r \in {readdir(View(store), ino, k)} :
                 /\ r.err = "Ok"
                 /\ r.val = SubSeq(Listing(ino), k + 1, Len(Listing(ino)))
                 /\ r.val = (IF k = 0 THEN <<Listing(ino)[1]>> ELSE <<>>)
                            \o (IF k <= 1 THEN <<Listing(ino)[2]>> ELSE <<>>)
                            \o SubSeq(Stored(ino), Max(0, k - 2) + 1, Len(Stored(ino)))
                 /\ r.t.kv = store

\* the root was listed from offset 3 after b and then a were made in it:
\* the answer is the entry of a alone
ListedFromThree ==
    /\ lastRes.op = "readdir"
    /\ lastRes.err = "Ok"
    /\ lastRes.arg = <<ROOT_INODE, 3>>
    /\ Len(Stored(ROOT_INODE)) = 2
    /\ Stored(ROOT_INODE)[1].name = "b"
    /\ lastRes.val = <<DirItem(3, "a", "RegularFile")>>

\* the request leaves the block size of the meta record as it is
KeepsBlockSize(r) ==
    MetaKey \in DOMAIN store
        => /\ MetaKey \in DOMAIN Committed(r)
           /\ Committed(r)[MetaKey].block_size = store[MetaKey].block_size

\* C35: init.  On the empty store init makes inode 1, an empty directory,
\* and a meta record with the configured block size.  On a store whose
\* meta has another block size it fails with BlockSizeConflict and writes
\* nothing.  On a store it has initialised with the same block size it
\* changes nothing (neither meta.inode_next nor the root directory).  The
\* block size of the meta record is the same after every request.
InitOnce ==
    /\ \A r \in {init(View(store))} :
       \A after \in {Committed(r)} :
          /\ store = EmptyStore
                => /\ r.err = "Ok"
                   /\ after[MetaKey].block_size = block_size
                   /\ after[MetaKey].inode_next = ROOT_INODE + 1
                   /\ after[InodeKey(ROOT_INODE)].kind = "Directory"
                   /\ after[BlockKey(ROOT_INODE, 0)] = DirBlock(<<>>)
          /\ (MetaKey \in DOMAIN store /\ store[MetaKey].block_size # block_size)
                => /\ r.err = "BlockSizeConflict"
                   /\ after = store
                   /\ r.t.kv = store
          /\ (MetaKey \in DOMAIN store /\ store[MetaKey].block_size = block_size)
                => /\ r.err = "Ok"
                   /\ after = store
          /\ KeepsBlockSize(r)
    /\ \A name \in MountNames :
          /\ \A r \in {make_inode(View(store), ROOT_INODE, name, "RegularFile")} :
                KeepsBlockSize(r)
          /\ \A r \in {mkdir(View(store), ROOT_INODE, name)} : KeepsBlockSize(r)
          /\ \A r \in {unlink(View(store), ROOT_INODE, name)} : KeepsBlockSize(r)
          /\ \A r \in {rmdir(View(store), ROOT_INODE, name)} : KeepsBlockSize(r)
          /\ \A link_target \in LinkTargets :
             \A r \in {symlink(View(store), ROOT_INODE, name, link_target)} :
                KeepsBlockSize(r)

\* a store with a file in it was mounted with another block size and init
\* was refused
MountRefused ==
    /\ lastRes.op = "init"
    /\ lastRes.err = "BlockSizeConflict"
    /\ store[MetaKey].block_size # block_size
    /\ store[MetaKey].inode_next > ROOT_INODE + 1
    /\ Len(Stored(ROOT_INODE)) = 1

\* name in the stored directory parent is the name of a stored directory
NamesDirectory(parent, name) ==
    /\ InodeKey(parent) \in DOMAIN store
    /\ store[InodeKey(parent)].kind = "Directory"
    /\ BlockKey(parent, 0) \in DOMAIN store
    /\ IndexKey(parent, name) \in DOMAIN store
    /\ InodeKey(store[IndexKey(parent, name)]) \in DOMAIN store
    /\ store[InodeKey(store[IndexKey(parent, name)])].kind = "Directory"

\* the directory named name in parent is there in st as it is in the store
StillThere(st, parent, name) ==
    LET ino == store[IndexKey(parent, name)] IN
    /\ IndexKey(parent, name) \in DOMAIN st
    /\ st[IndexKey(parent, name)] = ino
    /\ InodeKey(ino) \in DOMAIN st
    /\ st[InodeKey(ino)] = store[InodeKey(ino)]
    /\ st[BlockKey(ino, 0)] = store[BlockKey(ino, 0)]

\* C36: rmdir.  On a directory with entries rmdir fails with DirNotEmpty
\* and changes nothing; on an empty directory it removes the index entry,
\* the inode record and the entry in the parent's directory block.  A
\* directory with entries is removed neither by rmdir nor by a link or a
\* rename onto its name.
RmdirOnlyEmpty ==
    \A parent \in Inos, name \in Names :
       NamesDirectory(parent, name) =>
          LET ino == store[IndexKey(parent, name)] IN
          /\ \A r \in {rmdir(View(store), parent, name)} :
                IF DirEntries(ino) # <<>>
                THEN /\ r.err = "DirNotEmpty"
                     /\ r.t.kv = store
                     /\ Committed(r) = store
                ELSE /\ r.err = "Ok"
                     /\ IndexKey(parent, name) \notin DOMAIN Committed(r)
                     /\ InodeKey(ino) \notin DOMAIN Committed(r)
                     /\ \A i \in DOMAIN Committed(r)[BlockKey(parent, 0)].items :
                           Committed(r)[BlockKey(parent, 0)].items[i].name # name
          /\ DirEntries(ino) # <<>> =>
                /\ \A other \in UserInos :
                   \A r \in {link(View(store), other, parent, name)} :
                      /\ r.err # "Ok"
                      /\ StillThere(Committed(r), parent, name)
                /\ \A p \in Inos, n \in Names :
                   \A r \in {rename(View(store), p, n, parent, name)} :
                      /\ r.err # "Ok"
                      /\ StillThere(Committed(r), parent, name)

\* an rmdir was refused with DirNotEmpty and the root holds a directory
\* with an entry
RmdirRefused ==
    /\ lastRes.op = "rmdir"
    /\ lastRes.err = "DirNotEmpty"
    /\ \E name \in Names :
          /\ NamesDirectory(ROOT_INODE, name)
          /\ DirEntries(store[IndexKey(ROOT_INODE, name)]) # <<>>

\* ----------------------------------------------------------------------
\* Replace specification: one task creates "a" under the root while the
\* other renames the stored file "b" onto "a".
\* ----------------------------------------------------------------------
Creator == 1
Replacer == 2

ReplaceInit ==
    /\ backend \in {"kv", "mem"}
    /\ block_size = SmallBlock
    /\ direct_io = FALSE
    /\ \E mounted \in {MountedStore} :
          store = make_inode(View(mounted), ROOT_INODE, "b", "RegularFile").t.kv
    /\ written = [k \in {} |-> 0]
    /\ lastRes = NoReply
    /\ nops = 0
    /\ allocated = {}
    /\ clean = TRUE
    /\ procs = [p \in {Creator, Replacer} |-> Idle(1)]
    /\ versions = NoVersions
    /\ holders = {}

\* TiFs::rename of "b" onto the name being created
IssueReplace(p) ==
    /\ p = Replacer
    /\ Issue(p, "rename", <<ROOT_INODE, "b", ROOT_INODE, CreateName(Creator)>>)

ReplaceNext ==
    \E p \in {Creator, Replacer} :
        \/ (p = Creator /\ IssueCreate(p))
        \/ IssueReplace(p)
        \/ Begin(p)
        \/ Commit(p)
        \/ Step(p)

ReplaceSpec == ReplaceInit /\ [][ReplaceNext]_vars

\* C37: one request, one transaction.  A create allocates the inode and
\* opens its handle in one transaction: no request acts between the two,
\* and the only error a create is answered with is the one of the
\* allocation (FileExist, the name was taken before), never one that comes
\* after its name was there for others.
CreateAtomic ==
    procs[Creator].reply # NoAnswer
        => procs[Creator].reply.err \in {"Ok", "FileExist"}

\* C38: symlink round trip.  After a symlink request has succeeded,
\* readlink of the new inode returns the target byte for byte, whatever
\* its length and whichever the backend, and the size of the inode is
\* the length of the target; a readlink of a stored symbolic link is
\* never answered with an error.
SymlinkRoundTrip ==
    /\ (lastRes.op = "symlink" /\ lastRes.err = "Ok") =>
          /\ \A r \in {readlink(lastRes.val)} :
                r.err = "Ok" /\ r.val = lastRes.arg[3]
          /\ store[InodeKey(lastRes.val)].size = Len(lastRes.arg[3])
    /\ lastRes.op = "readlink" => lastRes.err = "Ok"

\* C39: name length.  A request with a name of more than 255 bytes is
\* answered NameTooLong, and no name of more than 255 bytes is stored in
\* the index or in a directory block.
NamesBounded ==
    /\ (lastRes.op \in {"mknod", "mkdir", "symlink", "rmdir", "unlink"}
           /\ name_len(lastRes.arg[2]) > 255)
          => lastRes.err = "NameTooLong"
    /\ \A k \in DOMAIN store :
          /\ k[1] = "X" => name_len(k[3]) <= 255
          /\ (k[1] = "B" /\ store[k].t = "dir")
                => \A i \in DOMAIN store[k].items :
                      name_len(store[k].items[i].name) <= 255

====
